---- MODULE Spec2Model ----
(***************************************************************************)
(* Volatria market-data core: the persistent store (stocks and watchlist   *)
(* tables of internal/database/database.go), the synthetic backfill of     *)
(* GetHistoricalPrices, and the fetcher paths that write quotes.           *)
(*                                                                         *)
(* Time is counted in ticks.  Prices are fixed-point hundredths (a float64 *)
(* price p is held as the integer 100*p).  A SQL statement is atomic; it   *)
(* either executes or fails with a driver error, chosen by the caller of   *)
(* the action (the fault inputs).                                          *)
(***************************************************************************)
EXTENDS Integers, Sequences, FiniteSets, TLC

\* ---------------------------------------------------------------- bounds
\* Number of daily closes the provider's historical response can carry.
NumDays ==
    2
\* Ticks between two daily closes.
DayLen ==
    10
\* Ticks the wall clock can advance after start-up.
MaxClock ==
    2
\* Length of the longest window asked of generateSyntheticData on its own.
MaxWindow ==
    4
\* TTL of the handlers' cache, in ticks.
CacheTTL ==
    1
\* maxSize of the handlers' cache.
CacheMaxSize ==
    2
\* Lookups of the handlers' cache in one run.
MaxLookups ==
    3
\* threshold of NewCircuitBreaker.
Threshold ==
    2
\* timeout of NewCircuitBreaker, in ticks.
Timeout ==
    2
\* Size of fetchHistoricalData's semaphore (5 in the source, scaled down).
MaxConcurrent ==
    2
\* Calls of Fetcher.Start in one run.
MaxStarts ==
    2
\* Requests inside c.Next() at the same time.
MaxInflight ==
    2
\* Ticks the clock advances while the guards are exercised.
GuardClock ==
    4
\* rps of NewRateLimiter: the buckets' capacity and their tokens per second.
Capacity ==
    2
\* Ticks in which one token is refilled.
TokenTicks ==
    2

\* ------------------------------------------------------ program constants
\* Floor of the backfill rule: fewer real points than this are padded.
MinPoints ==
    30
\* Attempts of every retry loop (store write, latest-price read, provider fetch).
MaxAttempts ==
    3

Symbols == {"AAPL", "MSFT"}
Users == {1, 2}

\* The wall clock at start-up is after the last daily close.
StartTime == NumDays * DayLen + 1
MaxNow == StartTime + MaxClock

VARIABLES
    stocks,     \* the stocks table: rows in insertion order
    watchlist,  \* the watchlist table: set of rows
    now,        \* the wall clock, time.Now()
    ret,        \* what the last operation was given and what it returned
    synth,      \* generateSyntheticData called on its own: arguments and result
    users,      \* the users table
    cache,      \* Handler.cache.entries: key -> CacheEntry
    metrics,    \* Handler.cache.metrics: Hits and Misses
    getters,    \* the goroutines inside Cache.Get or RateLimiter.Limit, one per worker
    cb,         \* CircuitBreaker: failures and lastFailure
    rl,         \* RateLimiter.limiters: key -> token bucket
    inflight,   \* requests the guards let through whose handler has not answered
    fetcher,    \* the Fetcher: its fields, its goroutines and what they have done
    resp        \* what the last request or cache call was given and what it answered

serverVars == <<users, cache, metrics, getters, cb, rl, inflight, fetcher, resp>>
storeVars == <<stocks, watchlist, ret, synth>>
guardVars == <<getters, cb, rl, inflight>>

vars == <<stocks, watchlist, now, ret, synth, users, cache, metrics, getters, cb, rl,
          inflight, fetcher, resp>>

\* ------------------------------------------------------------ the tables
\* Stock{Symbol, Price, Timestamp}: a row of the stocks table and of a result.
Stock(sym, price, ts) == [Symbol |-> sym, Price |-> price, Timestamp |-> ts]

Range(s) == {s[i] : i \in 1..Len(s)}

\* WHERE symbol = ?
RowsOf(st, sym) == {r \in Range(st) : r.Symbol = sym}

\* PRIMARY KEY (symbol, timestamp): is the key taken?
HasKey(st, sym, ts) == \E r \in Range(st) : r.Symbol = sym /\ r.Timestamp = ts

\* ORDER BY timestamp (ascending) over a set of rows.
RECURSIVE OrderByTimestamp(_)
OrderByTimestamp(S) ==
    IF S = {} THEN <<>>
    ELSE LET m == CHOOSE x \in S : \A y \in S : x.Timestamp <= y.Timestamp
         IN  <<m>> \o OrderByTimestamp(S \ {m})

Reverse(s) == [i \in 1..Len(s) |-> s[Len(s) + 1 - i]]

\* A variant of LatestRow without the ORDER BY: the row inserted last.
LatestRow_LastInserted(st, sym) ==
    LET idx == {i \in 1..Len(st) : st[i].Symbol = sym}
    IN  IF idx = {} THEN <<>>
        ELSE <<st[CHOOSE i \in idx : \A j \in idx : i >= j]>>
\* SELECT price FROM stocks WHERE symbol = ? ORDER BY timestamp DESC LIMIT 1:
\* the rows the statement yields (none, or one).
LatestRow(st, sym) ==
    LET desc == Reverse(OrderByTimestamp(RowsOf(st, sym)))
    IN  IF desc = <<>> THEN <<>> ELSE <<Head(desc)>>

\* A variant of ExecInsertStock with INSERT OR REPLACE: a taken key has its
\* row replaced.
ExecInsertStock_Replace(st, sym, price, ts, fault) ==
    IF fault THEN [err |-> "Fault", stocks |-> st]
    ELSE [err |-> "nil",
          stocks |-> Append(SelectSeq(st, LAMBDA r : ~(r.Symbol = sym /\ r.Timestamp = ts)),
                            Stock(sym, price, ts))]
\* INSERT INTO stocks (symbol, price, timestamp) VALUES (?, ?, ?): one Exec.
\* A driver fault or a taken primary key fails the statement and writes nothing.
ExecInsertStock(st, sym, price, ts, fault) ==
    IF fault THEN [err |-> "Fault", stocks |-> st]
    ELSE IF HasKey(st, sym, ts) THEN [err |-> "Constraint", stocks |-> st]
    ELSE [err |-> "nil", stocks |-> Append(st, Stock(sym, price, ts))]

\* A variant of StoreRetry without the return inside the loop: it always makes
\* three Execs and then returns the error.
RECURSIVE StoreRetry_NoEarlyReturn(_, _, _, _, _, _)
StoreRetry_NoEarlyReturn(i, st, sym, price, ts, faults) ==
    IF i > MaxAttempts
    THEN [err |-> "StoreFailed", cause |-> "Constraint", stocks |-> st, attempts |-> i - 1]
    ELSE LET r == ExecInsertStock(st, sym, price, ts, faults[i])
         IN  StoreRetry_NoEarlyReturn(i + 1, r.stocks, sym, price, ts, faults)
\* The retry loop of StoreStock and StoreStockWithTimestamp, from attempt i on
\* (for i := 0; i < 3; i++): the first Exec that succeeds returns nil, three
\* failures return the wrapped error.  attempts counts the Execs made.
RECURSIVE StoreRetry(_, _, _, _, _, _)
StoreRetry(i, st, sym, price, ts, faults) ==
    LET r == ExecInsertStock(st, sym, price, ts, faults[i])
    IN  IF r.err = "nil"
        THEN [err |-> "nil", cause |-> "nil", stocks |-> r.stocks, attempts |-> i]
        ELSE IF i + 1 > MaxAttempts
        THEN [err |-> "StoreFailed", cause |-> r.err, stocks |-> r.stocks, attempts |-> i]
        ELSE StoreRetry(i + 1, r.stocks, sym, price, ts, faults)

\* StoreStockWithTimestamp(symbol, price, timestamp)
StoreStockWithTimestamp(st, sym, price, ts, faults) ==
    StoreRetry(1, st, sym, price, ts, faults)

\* StoreStock(symbol, price): the timestamp is time.Now()
StoreStock(st, sym, price, clock, faults) ==
    StoreRetry(1, st, sym, price, clock, faults)

\* ------------------------------------------------------ provider responses
\* A price string is a sequence of characters.
Digits == {"0", "1", "2", "3", "4", "5", "6", "7", "8", "9"}
DigitVal(c) ==
    CASE c = "0" -> 0 [] c = "1" -> 1 [] c = "2" -> 2 [] c = "3" -> 3 [] c = "4" -> 4
      [] c = "5" -> 5 [] c = "6" -> 6 [] c = "7" -> 7 [] c = "8" -> 8 [] c = "9" -> 9

\* Length of the longest prefix of s, from position i on, made of digits.
RECURSIVE DigitRun(_, _)
DigitRun(s, i) ==
    IF i <= Len(s) /\ s[i] \in Digits THEN 1 + DigitRun(s, i + 1) ELSE 0

\* Value of the digits s[i..j] read as a decimal number.
RECURSIVE DecimalValue(_, _, _)
DecimalValue(s, i, j) ==
    IF j < i THEN 0 ELSE 10 * DecimalValue(s, i, j - 1) + DigitVal(s[j])

\* parsePrice: fmt.Sscanf(priceStr, "%f", &price) reads an optional sign, digits,
\* and an optional point followed by digits; a token without any digit is an
\* error.  The value is returned in hundredths.  No sign or range check follows.
parsePrice(priceStr) ==
    LET signed == Len(priceStr) >= 1 /\ priceStr[1] \in {"+", "-"}
        neg    == signed /\ priceStr[1] = "-"
        i0     == IF signed THEN 2 ELSE 1
        nInt   == DigitRun(priceStr, i0)
        dot    == i0 + nInt
        hasDot == dot <= Len(priceStr) /\ priceStr[dot] = "."
        nFrac  == IF hasDot THEN DigitRun(priceStr, dot + 1) ELSE 0
        whole  == DecimalValue(priceStr, i0, i0 + nInt - 1)
        d1     == IF nFrac >= 1 THEN DigitVal(priceStr[dot + 1]) ELSE 0
        d2     == IF nFrac >= 2 THEN DigitVal(priceStr[dot + 2]) ELSE 0
        mag    == 100 * whole + 10 * d1 + d2
    IN  IF nInt + nFrac = 0 THEN [err |-> "ParseError", price |-> 0]
        ELSE [err |-> "nil", price |-> IF neg THEN 0 - mag ELSE mag]

\* What the provider can put in a price field.
PriceStrings ==
    { <<"1", "5", "0", ".", "0", "0">>,
      <<"1", "4", "9", ".", "5">>,
      <<"0", ".", "0", "0">>,
      <<"N", "/", "A">>,
      <<>> }

\* One provider attempt: the request fails, or it yields a decodable body whose
\* price field holds a string (empty when the field is absent).
HttpErr == <<"h", "t", "t", "p">>
Responses == PriceStrings \cup {HttpErr}

\* fetchStockPrice's retry loop from attempt i on: the first attempt whose body
\* carries a non-empty price that parses returns it.
RECURSIVE fetchStockPrice(_, _)
fetchStockPrice(i, resps) ==
    LET r   == resps[i]
        p   == parsePrice(r)
        bad == IF r = HttpErr THEN "HttpError"
               ELSE IF r = <<>> THEN "NoPriceData"
               ELSE p.err
    IN  IF bad = "nil" THEN [err |-> "nil", price |-> p.price, attempts |-> i]
        ELSE IF i + 1 > MaxAttempts THEN [err |-> bad, price |-> 0, attempts |-> i]
        ELSE fetchStockPrice(i + 1, resps)

\* time.Parse("2006-01-02", date) of a key of the daily series: key d is the
\* d-th daily close; key 0 stands for a key that is no date.
DateKeys == 0..NumDays
ParseDate(d) ==
    IF d \in 1..NumDays THEN [err |-> "nil", ts |-> d * DayLen]
    ELSE [err |-> "ParseError", ts |-> 0]

\* ------------------------------------------------------- synthetic backfill
\* Go's integer division truncates toward zero.
GoDiv(a, b) ==
    IF (a >= 0) = (b > 0) THEN (IF a >= 0 THEN a ELSE 0 - a) \div (IF b > 0 THEN b ELSE 0 - b)
    ELSE 0 - ((IF a >= 0 THEN a ELSE 0 - a) \div (IF b > 0 THEN b ELSE 0 - b))

\* (rand.Float64()*4 - 2) / 100, in whole percent: the i-th draw of a generator
\* in state seed lies in [-2, 2).
Seeds == {0, 1}
RandChange(seed, i) == ((3 * seed + 5 * i + (i \div 3)) % 4) - 2

\* currentPrice * (1 + change), in hundredths.
ApplyChange(price, change) == GoDiv(price * (100 + change), 100)

\* The loop of generateSyntheticData from step i on; price is currentPrice
\* before step i.
RECURSIVE SyntheticWalk(_, _, _, _, _, _, _)
SyntheticWalk(i, count, sym, price, start, interval, seed) ==
    IF i >= count THEN <<>>
    ELSE LET p == ApplyChange(price, RandChange(seed, i))
         IN  <<Stock(sym, p, start + i * interval)>>
             \o SyntheticWalk(i + 1, count, sym, p, start, interval, seed)

\* generateSyntheticData(symbol, basePrice, start, end, count)
SyntheticInterval(start, end, count) == GoDiv(end - start, count)

generateSyntheticData(sym, basePrice, start, end, count, seed) ==
    SyntheticWalk(0, count, sym, basePrice, start, SyntheticInterval(start, end, count), seed)

\* ------------------------------------------------------------------ reads
\* GetLatestPrice's retry loop from attempt i on: an attempt fails on a driver
\* fault and on sql.ErrNoRows alike; three failures return the wrapped error.
RECURSIVE GetLatestPrice(_, _, _, _)
GetLatestPrice(i, st, sym, faults) ==
    LET row == LatestRow(st, sym)
        e   == IF faults[i] THEN "Fault" ELSE IF row = <<>> THEN "ErrNoRows" ELSE "nil"
    IN  IF e = "nil" THEN [err |-> "nil", cause |-> "nil", price |-> row[1].Price, attempts |-> i]
        ELSE IF i + 1 > MaxAttempts
        THEN [err |-> "GetLatestFailed", cause |-> e, price |-> 0, attempts |-> i]
        ELSE GetLatestPrice(i + 1, st, sym, faults)

\* WHERE symbol = ? AND timestamp BETWEEN ? AND ? ORDER BY timestamp
RangeRows(st, sym, start, end) ==
    OrderByTimestamp({r \in RowsOf(st, sym) : start <= r.Timestamp /\ r.Timestamp <= end})

\* A variant of NoRealPoint that never sees an empty read.
NoRealPoint_Never(read) == FALSE
\* if len(stocks) == 0 { return nil, sql.ErrNoRows }
NoRealPoint(read) == Len(read) = 0

\* GetHistoricalPrices(symbol, start, end).  qfault: the range query fails;
\* nread: rows the iteration yields before it ends (fewer than the range holds
\* when rows.Next stops on an error, which rows.Err then reports); lfault: the
\* latest-price query of the backfill fails.  nreal counts the real points
\* returned: they come first.
GetHistoricalPrices(st, sym, start, end, qfault, nread, lfault, seed) ==
    LET all     == RangeRows(st, sym, start, end)
        rowsErr == IF nread < Len(all) THEN "Fault" ELSE "nil"
        latest  == LatestRow(st, sym)
    IN  IF qfault THEN [err |-> "Fault", rows |-> <<>>, nreal |-> 0]
        ELSE LET read == SubSeq(all, 1, nread)
             IN  IF NoRealPoint(read) THEN [err |-> "ErrNoRows", rows |-> <<>>, nreal |-> 0]
                 ELSE IF Len(read) < MinPoints
                 THEN IF lfault \/ latest = <<>>
                      THEN [err |-> rowsErr, rows |-> read, nreal |-> Len(read)]
                      ELSE [err |-> rowsErr,
                            rows |-> read \o generateSyntheticData(sym, latest[1].Price,
                                        start, end, MinPoints - Len(read), seed),
                            nreal |-> Len(read)]
                 ELSE [err |-> rowsErr, rows |-> read, nreal |-> Len(read)]

\* --------------------------------------------------------------- watchlist
WatchRow(user, sym, at) == [user_id |-> user, symbol |-> sym, added_at |-> at]

\* PRIMARY KEY (user_id, symbol)
WatchRowsOf(wl, user, sym) == {w \in wl : w.user_id = user /\ w.symbol = sym}

\* A variant of ExecInsertWatch with INSERT OR REPLACE: the row is rewritten.
ExecInsertWatch_OrReplace(wl, user, sym, at) ==
    (wl \ WatchRowsOf(wl, user, sym)) \cup {WatchRow(user, sym, at)}
\* INSERT OR IGNORE INTO watchlist (user_id, symbol, added_at) VALUES (?, ?, ?)
ExecInsertWatch(wl, user, sym, at) ==
    IF WatchRowsOf(wl, user, sym) # {} THEN wl
    ELSE wl \cup {WatchRow(user, sym, at)}

\* AddToWatchlist(userID, symbol): one Exec, its error returned as it is.
AddToWatchlist(wl, user, sym, clock, fault) ==
    IF fault THEN [err |-> "Fault", watchlist |-> wl]
    ELSE [err |-> "nil", watchlist |-> ExecInsertWatch(wl, user, sym, clock)]

\* ORDER BY w.added_at DESC over a set of watchlist rows.
RECURSIVE OrderByAddedAtDesc(_)
OrderByAddedAtDesc(S) ==
    IF S = {} THEN <<>>
    ELSE LET m == CHOOSE x \in S : \A y \in S : x.added_at >= y.added_at
         IN  <<m>> \o OrderByAddedAtDesc(S \ {m})

\* The row the LEFT JOIN yields for one watchlist row: the symbol's quote with
\* MAX(timestamp), or NULL price and timestamp when the symbol has no quote.
\* A nullable column is <<>> for NULL and <<v>> for the value v.
JoinLatest(st, w) ==
    LET latest == LatestRow(st, w.symbol)
    IN  IF latest = <<>> THEN [symbol |-> w.symbol, price |-> <<>>, timestamp |-> <<>>]
        ELSE [symbol |-> w.symbol, price |-> <<latest[1].Price>>,
              timestamp |-> <<latest[1].Timestamp>>]

\* rows.Scan(&s.Symbol, &s.Price, &s.Timestamp) into string, float64 and
\* time.Time: a NULL column cannot be converted and fails the Scan.
ScanFails(row) == row.price = <<>> \/ row.timestamp = <<>>
Scan(row) == Stock(row.symbol, row.price[1], row.timestamp[1])

\* GetWatchlist(userID): the first row whose Scan fails ends the call with
\* that error and no rows.
GetWatchlist(st, wl, user, qfault) ==
    LET mine   == OrderByAddedAtDesc({w \in wl : w.user_id = user})
        joined == [i \in 1..Len(mine) |-> JoinLatest(st, mine[i])]
    IN  IF qfault THEN [err |-> "Fault", rows |-> <<>>]
        ELSE IF \E i \in 1..Len(joined) : ScanFails(joined[i])
        THEN [err |-> "ScanNull", rows |-> <<>>]
        ELSE [err |-> "nil", rows |-> [i \in 1..Len(joined) |-> Scan(joined[i])]]

\* ---------------------------------------------------------------- inputs
\* The outcomes of the Execs of one retry loop: the first k fail on a fault.
FaultSeqs == {[i \in 1..MaxAttempts |-> i <= k] : k \in 0..MaxAttempts}

\* The provider's answers to the attempts of one fetch: k failed requests, then
\* the same answer to every later attempt.
RespSeqs ==
    {[i \in 1..MaxAttempts |-> IF i <= k THEN HttpErr ELSE g] :
        k \in 0..(MaxAttempts - 1), g \in Responses}

\* The windows asked of GetHistoricalPrices: one long enough for a positive
\* synthetic interval, one from the first daily close to the last, one that
\* starts just after the first daily close.
Windows ==
    { <<0, 2 * MinPoints>>, <<DayLen, NumDays * DayLen>>, <<DayLen + 1, NumDays * DayLen>> }

\* What can go wrong in one GetHistoricalPrices call: nothing, the range query,
\* the iteration over its rows (one row short), the latest-price query.
HistFaults == {"none", "query", "iteration", "latest"}

\* ---------------------------------------------------- server-side state
\* bcrypt: the hash carries its salt; the digest is determined by salt and
\* password and differs for different passwords.
Digest(salt, password) == <<"bcrypt", salt, password>>

\* hashPassword(password), with the salt GenerateFromPassword draws.
hashPassword(password, salt) == [salt |-> salt, digest |-> Digest(salt, password)]

Salts == {0, 1}

\* New(): INSERT OR IGNORE INTO users the one default account.
SeededUsers(salt) ==
    {[ID |-> 1, Username |-> "Shandris", Password |-> hashPassword("ShandrisStocks", salt)]}

\* ------------------------------------------------------------ the fetcher
\* fetchHistoricalData's symbols and fetchPrices' symbols: the first entries
\* of the two fixed lists.
BackfillSymbols == <<"AAPL", "GOOGL", "MSFT">>
LiveSymbols == {"AAPL", "GOOGL"}

\* The goroutines that call Start and Stop, and the poll loops Start launches.
Callers == {1, 2}
Loops == 3..(2 + MaxStarts)

IdleThread == [op |-> "none", pc |-> "idle", seen |-> FALSE, pending |-> {}, after |-> 0,
               stale |-> FALSE]

\* One call of fetchHistoricalData: the index of the next symbol of its loop,
\* its context, and the symbols of its workers in flight (each holds a slot of
\* sem).
NoBackfill == [next |-> 1, ctx |-> "live", run |-> {}]

\* fetcher.New: nothing runs, done is open, the ticker has been started.
NewFetcher ==
    [isRunning |-> FALSE, done |-> "open", tick |-> 0, stopped |-> FALSE, panic |-> FALSE,
     starts |-> 0, fresh |-> FALSE,
     th |-> [t \in Callers \cup Loops |-> IdleThread],
     bf |-> [c \in Callers |-> NoBackfill],
     metrics |-> [TotalRequests |-> 0, FailedRequests |-> 0, SuccessfulFetches |-> 0]]


NoResp ==
    [op |-> "none", key |-> <<>>, user |-> "", pass |-> "", status |-> 0, body |-> <<>>,
     queried |-> FALSE, found |-> FALSE, qfault |-> FALSE, panic |-> FALSE, at |-> 0, streak |-> 0, admitted |-> <<>>,
     hit |-> {}, asked |-> {}, failed |-> {}, evicted |-> {}]

\* NewCache, NewCircuitBreaker, NewRateLimiter: nothing cached, nothing counted.
ServerIdle ==
    /\ cache = <<>>
    /\ metrics = [Hits |-> 0, Misses |-> 0]
    /\ getters = <<>>
    /\ cb = [failures |-> 0, lastFailure |-> 0]
    /\ rl = <<>>
    /\ inflight = 0
    /\ fetcher = NewFetcher
    /\ resp = NoResp

ServerInit == users = SeededUsers(0) /\ ServerIdle

\* ----------------------------------------------------------------- state
NoRet ==
    [op |-> "none", sym |-> "", user |-> 0, start |-> 0, end |-> 0, ts |-> 0,
     price |-> 0, err |-> "nil", cause |-> "nil", attempts |-> 0, faults |-> <<>>,
     rows |-> <<>>, nreal |-> 0, qfault |-> FALSE, lfault |-> FALSE, first |-> 0,
     path |-> "", slots |-> 0]

NoSynth == [start |-> 0, end |-> 0, count |-> 0, base |-> 0, seed |-> 0,
            out |-> <<>>, done |-> FALSE]

Init ==
    /\ stocks = <<>>
    /\ watchlist = {}
    /\ now = StartTime
    /\ ret = NoRet
    /\ synth = NoSynth
    /\ ServerInit

\* --------------------------------------------------------------- actions
\* One worker of fetchPrices: fetchStockPrice(s), then StoreStock(s, price); a
\* fetch error is logged and nothing is stored.
PollQuote(sym, resps, faults) ==
    \E f \in {fetchStockPrice(1, resps)} :
        /\ now < MaxNow
        /\ IF f.err # "nil"
           THEN /\ ret' = [NoRet EXCEPT !.op = "fetchFailed", !.sym = sym, !.err = f.err]
                /\ UNCHANGED <<stocks, now>>
           ELSE \E s \in {StoreStock(stocks, sym, f.price, now, faults)} :
                /\ stocks' = s.stocks
                /\ ret' = [NoRet EXCEPT !.op = "StoreStock", !.sym = sym, !.price = f.price,
                                        !.ts = now, !.err = s.err, !.cause = s.cause,
                                        !.attempts = s.attempts, !.faults = faults]
                /\ now' = now + 1
        /\ UNCHANGED <<watchlist, synth>>
        /\ UNCHANGED serverVars

\* One (date, close) pair of a worker of fetchHistoricalData: a close or a date
\* that does not parse is logged and skipped, else the point is stored.
BackfillPoint(sym, d, closeStr, faults) ==
    \E p \in {parsePrice(closeStr)}, t \in {ParseDate(d)} :
        /\ now < MaxNow
        /\ IF p.err # "nil" \/ t.err # "nil"
           THEN /\ ret' = [NoRet EXCEPT !.op = "skipped", !.sym = sym, !.err = "ParseError"]
                /\ UNCHANGED <<stocks, now>>
           ELSE \E s \in {StoreStockWithTimestamp(stocks, sym, p.price, t.ts, faults)} :
                /\ stocks' = s.stocks
                /\ ret' = [NoRet EXCEPT !.op = "StoreStockWithTimestamp", !.sym = sym,
                                        !.price = p.price, !.ts = t.ts, !.err = s.err,
                                        !.cause = s.cause, !.attempts = s.attempts,
                                        !.faults = faults]
                /\ now' = now + 1
        /\ UNCHANGED <<watchlist, synth>>
        /\ UNCHANGED serverVars

CallAddToWatchlist(user, sym, fault) ==
    \E r \in {AddToWatchlist(watchlist, user, sym, now, fault)} :
        /\ now < MaxNow
        /\ watchlist' = r.watchlist
        /\ ret' = [NoRet EXCEPT !.op = "AddToWatchlist", !.user = user, !.sym = sym,
                                !.ts = now, !.err = r.err, !.qfault = fault]
        /\ now' = now + 1
        /\ UNCHANGED <<stocks, synth>>
        /\ UNCHANGED serverVars

CallGetLatestPrice(sym, faults) ==
    \E r \in {GetLatestPrice(1, stocks, sym, faults)} :
        /\ ret' = [NoRet EXCEPT !.op = "GetLatestPrice", !.sym = sym, !.price = r.price,
                                !.err = r.err, !.cause = r.cause, !.attempts = r.attempts,
                                !.faults = faults]
        /\ UNCHANGED <<stocks, watchlist, now, synth>>
        /\ UNCHANGED serverVars

\* hf says what goes wrong in the call; an iteration error ends the rows one
\* short of what the range holds.
CallGetHistoricalPrices(sym, w, hf, seed) ==
    \E n \in {Len(RangeRows(stocks, sym, w[1], w[2]))} :
        /\ hf = "iteration" => n >= 1
        /\ hf # "none" => seed = 0
        /\ \E r \in {GetHistoricalPrices(stocks, sym, w[1], w[2], hf = "query",
                                         IF hf = "iteration" THEN n - 1 ELSE n,
                                         hf = "latest", seed)} :
              ret' = [NoRet EXCEPT !.op = "GetHistoricalPrices", !.sym = sym,
                                   !.start = w[1], !.end = w[2], !.err = r.err,
                                   !.rows = r.rows, !.nreal = r.nreal,
                                   !.qfault = (hf = "query"), !.lfault = (hf = "latest")]
        /\ UNCHANGED <<stocks, watchlist, now, synth>>
        /\ UNCHANGED serverVars

CallGetWatchlist(user, qfault) ==
    \E r \in {GetWatchlist(stocks, watchlist, user, qfault)} :
        /\ ret' = [NoRet EXCEPT !.op = "GetWatchlist", !.user = user, !.err = r.err,
                                !.rows = r.rows, !.qfault = qfault]
        /\ UNCHANGED <<stocks, watchlist, now, synth>>
        /\ UNCHANGED serverVars

Next ==
    \/ \E sym \in Symbols, resps \in RespSeqs, faults \in FaultSeqs :
          PollQuote(sym, resps, faults)
    \/ \E sym \in Symbols, d \in DateKeys, c \in PriceStrings, faults \in FaultSeqs :
          BackfillPoint(sym, d, c, faults)
    \/ \E user \in Users, sym \in Symbols, fault \in BOOLEAN :
          CallAddToWatchlist(user, sym, fault)
    \/ \E sym \in Symbols, faults \in FaultSeqs : CallGetLatestPrice(sym, faults)
    \/ \E sym \in Symbols, w \in Windows, hf \in HistFaults, seed \in Seeds :
          CallGetHistoricalPrices(sym, w, hf, seed)
    \/ \E user \in Users, qfault \in BOOLEAN : CallGetWatchlist(user, qfault)

Spec == Init /\ [][Next]_vars

\* ------------------------------------- generateSyntheticData on its own
\* The arguments: every window start < end of at most MaxWindow ticks, and the
\* long window; every count the backfill rule can ask for.
SynthArgs ==
    {[start |-> a, end |-> b, count |-> n, base |-> 15000, seed |-> sd,
      out |-> <<>>, done |-> FALSE] :
        a \in 0..(MaxWindow - 1), b \in (1..MaxWindow) \cup {2 * MinPoints},
        n \in 1..(MinPoints - 1), sd \in Seeds}

InitSynth ==
    /\ stocks = <<>>
    /\ watchlist = {}
    /\ now = StartTime
    /\ ret = NoRet
    /\ synth \in {a \in SynthArgs : a.start < a.end}
    /\ ServerInit

RunSynthetic ==
    /\ ~synth.done
    /\ synth.count > 0
    /\ synth' = [synth EXCEPT
                   !.out = generateSyntheticData("AAPL", synth.base, synth.start,
                                                 synth.end, synth.count, synth.seed),
                   !.done = TRUE]
    /\ UNCHANGED <<stocks, watchlist, now, ret>>
    /\ UNCHANGED serverVars

NextSynth == RunSynthetic

SpecSynth == InitSynth /\ [][NextSynth]_vars

\* ------------------------------------------------------------------ Cache
\* delete(c.entries, key)
Remove(c, key) == [x \in (DOMAIN c) \ {key} |-> c[x]]

\* time.Since(entry.Timestamp) > c.ttl
Expired(entry, t) == t - entry.Timestamp > CacheTTL

\* A variant of CacheGet that never looks at the entry's age.
CacheGet_NoTTL(c, m, key, t) ==
    IF key \notin DOMAIN c
    THEN [found |-> FALSE, data |-> <<>>, metrics |-> [m EXCEPT !.Misses = @ + 1]]
    ELSE [found |-> TRUE, data |-> <<c[key].Data>>, metrics |-> [m EXCEPT !.Hits = @ + 1]]
\* Cache.Get(key): (entry.Data, true), or (nil, false) when the key is absent
\* or its entry is older than the TTL; RecordHit or RecordMiss.
CacheGet(c, m, key, t) ==
    IF key \notin DOMAIN c \/ Expired(c[key], t)
    THEN [found |-> FALSE, data |-> <<>>, metrics |-> [m EXCEPT !.Misses = @ + 1]]
    ELSE [found |-> TRUE, data |-> <<c[key].Data>>, metrics |-> [m EXCEPT !.Hits = @ + 1]]

\* A variant of OldestKeys that picks among the newest entries.
OldestKeys_Newest(c) ==
    {k \in DOMAIN c : \A j \in DOMAIN c : c[j].Timestamp <= c[k].Timestamp}
\* The keys the loop of Set can end on: the map is ranged over in any order and
\* an entry replaces the candidate only when its Timestamp is Before it.
OldestKeys(c) ==
    {k \in DOMAIN c : \A j \in DOMAIN c : c[k].Timestamp <= c[j].Timestamp}

\* The key Set deletes when the cache is full: victim if the loop can end on
\* it, else one it can end on.
Evicted(c, victim) ==
    IF victim \in OldestKeys(c) THEN victim ELSE CHOOSE k \in OldestKeys(c) : TRUE

\* Cache.Set(key, data): when len(entries) >= maxSize the oldest entry is
\* deleted first, whether or not key is already there.
CacheSet(c, key, data, t, victim) ==
    LET kept == IF Cardinality(DOMAIN c) >= CacheMaxSize /\ DOMAIN c # {}
                THEN Remove(c, Evicted(c, victim)) ELSE c
    IN  (key :> [Data |-> data, Timestamp |-> t]) @@ kept

\* One round of cleanup(): entries older than the TTL are deleted.
CacheCleanup(c, t) ==
    [k \in {x \in DOMAIN c : ~Expired(c[x], t)} |-> c[k]]

\* Cache.Clear()
CacheClear(c) == <<>>

\* ---------------------------------------------------------------- handlers
\* A variant of CompareHashAndPassword that accepts every password.
CompareHashAndPassword_Always(hash, password) == TRUE
\* bcrypt.CompareHashAndPassword(hash, password): the digest is recomputed
\* from the hash's salt and the password.
CompareHashAndPassword(hash, password) == hash.digest = Digest(hash.salt, password)

\* AuthenticateUser(username, password): the row of the username, then the
\* comparison of its hash with the password.
AuthenticateUser(us, username, password, fault) ==
    LET rows == {u \in us : u.Username = username}
    IN  IF fault THEN [err |-> "Fault", user |-> <<>>]
        ELSE IF rows = {} THEN [err |-> "ErrNoRows", user |-> <<>>]
        ELSE LET u == CHOOSE x \in rows : TRUE
             IN  IF ~CompareHashAndPassword(u.Password, password)
                 THEN [err |-> "ErrMismatchedHashAndPassword", user |-> <<>>]
                 ELSE [err |-> "nil", user |-> <<u>>]

ErrorBody(msg) == [type |-> "gin.H", error |-> msg]

\* Handler.Login: binding:"required" rejects an empty field with 400; every
\* error of AuthenticateUser is answered 401 "Invalid credentials".
Login(us, username, password, fault) ==
    IF username = "" \/ password = ""
    THEN [status |-> 400, body |-> <<ErrorBody("Invalid request")>>, queried |-> FALSE]
    ELSE LET a == AuthenticateUser(us, username, password, fault)
         IN  IF a.err # "nil"
             THEN [status |-> 401, body |-> <<ErrorBody("Invalid credentials")>>,
                   queried |-> TRUE]
             ELSE [status |-> 200, body |-> <<[type |-> "gin.H", userID |-> a.user[1].ID]>>,
                   queried |-> TRUE]

\* A string is held as the sequence of its parts between underscores, so that
\* fmt.Sprintf("%s_%s", symbol, rangeParam) is a concatenation.
CacheKey(symbol, rangeParam) == symbol \o rangeParam

\* The symbol the store is asked for: the parts joined again.
StoreSymbol(symbol) == IF Len(symbol) = 1 THEN symbol[1] ELSE "_"

\* Timestamp.Format(time.RFC3339)
FormatRFC3339(ts) == <<"RFC3339", ts>>

\* A variant of LatestPriceHandler that also caches the error answer.
LatestPriceHandler_CachesError(c, m, st, symbol, faults, t, victim) ==
    LET g == CacheGet(c, m, symbol, t)
        r == GetLatestPrice(1, st, StoreSymbol(symbol), faults)
        payload == IF r.err # "nil" THEN ErrorBody(r.cause)
                   ELSE [type |-> "gin.H", symbol |-> symbol, price |-> r.price]
    IN  IF g.found
        THEN [cache |-> c, metrics |-> g.metrics, status |-> 200, body |-> g.data,
              queried |-> FALSE, found |-> TRUE]
        ELSE [cache |-> CacheSet(c, symbol, payload, t, victim), metrics |-> g.metrics,
              status |-> IF r.err # "nil" THEN 404 ELSE 200, body |-> <<payload>>,
              queried |-> TRUE, found |-> FALSE]
\* Handler.GetLatestPrice (GET /stocks/:symbol): the cached entry, else the
\* store's latest price, cached under the symbol; 404 on any store error.
LatestPriceHandler(c, m, st, symbol, faults, t, victim) ==
    LET g == CacheGet(c, m, symbol, t)
        r == GetLatestPrice(1, st, StoreSymbol(symbol), faults)
        payload == [type |-> "gin.H", symbol |-> symbol, price |-> r.price]
    IN  IF g.found
        THEN [cache |-> c, metrics |-> g.metrics, status |-> 200, body |-> g.data,
              queried |-> FALSE, found |-> TRUE]
        ELSE IF r.err # "nil"
        THEN [cache |-> c, metrics |-> g.metrics, status |-> 404,
              body |-> <<ErrorBody(r.cause)>>, queried |-> TRUE, found |-> FALSE]
        ELSE [cache |-> CacheSet(c, symbol, payload, t, victim), metrics |-> g.metrics,
              status |-> 200, body |-> <<payload>>, queried |-> TRUE, found |-> FALSE]

\* switch rangeParam: the start of the range, or none for an unknown range.
\* AddDate(0, -1, 0) is taken as 30 days and AddDate(-1, 0, 0) as 365.
RangeStart(rangeParam, end) ==
    CASE rangeParam = <<"7d">> -> <<end - 7 * DayLen>>
      [] rangeParam = <<"1m">> -> <<end - 30 * DayLen>>
      [] rangeParam = <<"1y">> -> <<end - 365 * DayLen>>
      [] OTHER -> <<>>

FormatPrices(rows) ==
    [i \in 1..Len(rows) |->
        [symbol |-> rows[i].Symbol, price |-> rows[i].Price,
         timestamp |-> FormatRFC3339(rows[i].Timestamp)]]

\* Handler.GetHistoricalPrices (GET /stocks/:symbol/chart?range=): the cached
\* entry of symbol_range, else 400 on an unknown range, else the store's
\* series, cached under symbol_range; 404 on any store error.
HistoricalPricesHandler(c, m, st, symbol, rangeParam, hf, seed, t, victim) ==
    LET key   == CacheKey(symbol, rangeParam)
        g     == CacheGet(c, m, key, t)
        start == RangeStart(rangeParam, t)
    IN  IF g.found
        THEN [cache |-> c, metrics |-> g.metrics, status |-> 200, body |-> g.data,
              queried |-> FALSE, found |-> TRUE]
        ELSE IF start = <<>>
        THEN [cache |-> c, metrics |-> g.metrics, status |-> 400,
              body |-> <<ErrorBody("Invalid range parameter")>>, queried |-> FALSE,
              found |-> FALSE]
        ELSE LET n == Len(RangeRows(st, StoreSymbol(symbol), start[1], t))
                 r == GetHistoricalPrices(st, StoreSymbol(symbol), start[1], t,
                                          hf = "query",
                                          IF hf = "iteration" /\ n > 0 THEN n - 1 ELSE n,
                                          hf = "latest", seed)
                 payload == [type |-> "gin.H", symbol |-> symbol,
                             prices |-> FormatPrices(r.rows)]
             IN  IF r.err # "nil"
                 THEN [cache |-> c, metrics |-> g.metrics, status |-> 404,
                       body |-> <<ErrorBody(r.err)>>, queried |-> TRUE, found |-> FALSE]
                 ELSE [cache |-> CacheSet(c, key, payload, t, victim),
                       metrics |-> g.metrics, status |-> 200, body |-> <<payload>>,
                       queried |-> TRUE, found |-> FALSE]

\* The fixed list of GetPopularStocks.
popularStocks == << <<"AAPL">>, <<"MSFT">> >>

StockResponse(symbol, price, t) ==
    [type |-> "StockResponse", Symbol |-> symbol, Price |-> price,
     Timestamp |-> FormatRFC3339(t)]

\* One goroutine of GetPopularStocks, for popularStocks[i]: the cached entry
\* asserted to be a StockResponse (a panic when it is not), else the store's
\* latest price, cached under the symbol; an error is kept in errors[i].
PopularWorker(w, i, st, faults, t, victim) ==
    LET symbol == popularStocks[i]
        g == CacheGet(w.cache, w.metrics, symbol, t)
        r == GetLatestPrice(1, st, StoreSymbol(symbol), faults)
        response == StockResponse(symbol, r.price, t)
    IN  IF g.found
        THEN IF g.data[1].type # "StockResponse"
             THEN [w EXCEPT !.metrics = g.metrics, !.panic = TRUE]
             ELSE [w EXCEPT !.metrics = g.metrics, !.responses[i] = g.data,
                            !.hit = @ \cup {symbol}]
        ELSE IF r.err # "nil"
        THEN [w EXCEPT !.metrics = g.metrics, !.failed = @ \cup {symbol},
                       !.asked = @ \cup {symbol}]
        ELSE [w EXCEPT !.metrics = g.metrics,
                       !.cache = CacheSet(w.cache, symbol, response, t, victim),
                       !.responses[i] = <<response>>, !.asked = @ \cup {symbol}]

\* The goroutines run in the order given; a panic ends the process.
RECURSIVE PopularWorkers(_, _, _, _, _, _)
PopularWorkers(order, w, st, faultsOf, t, victim) ==
    IF order = <<>> \/ w.panic THEN w
    ELSE PopularWorkers(Tail(order),
                        PopularWorker(w, Head(order), st, faultsOf[Head(order)], t, victim),
                        st, faultsOf, t, victim)

\* Handler.GetPopularStocks (GET /stocks): the responses of the symbols without
\* an error, in list order, with status 200.
PopularStocksHandler(c, m, st, order, faultsOf, t, victim) ==
    LET n  == Len(popularStocks)
        w0 == [cache |-> c, metrics |-> m, panic |-> FALSE,
               responses |-> [i \in 1..n |-> <<>>], hit |-> {}, asked |-> {}, failed |-> {}]
        w  == PopularWorkers(order, w0, st, faultsOf, t, victim)
        ok == SelectSeq([i \in 1..n |-> i], LAMBDA i : popularStocks[i] \notin w.failed)
    IN  IF w.panic
        THEN [cache |-> w.cache, metrics |-> w.metrics, panic |-> TRUE, status |-> 0,
              body |-> <<>>, hit |-> w.hit, asked |-> w.asked, failed |-> w.failed]
        ELSE [cache |-> w.cache, metrics |-> w.metrics, panic |-> FALSE, status |-> 200,
              body |-> <<[type |-> "list",
                          items |-> [j \in 1..Len(ok) |-> w.responses[ok[j]][1]]]>>,
              hit |-> w.hit, asked |-> w.asked, failed |-> w.failed]

\* --------------------------------------------------- requests to the server
Usernames == {"Shandris", "shandris", "nobody", ""}
Passwords == {"ShandrisStocks", "Shandris", "guess", ""}
ApiSymbols == {popularStocks[i] : i \in 1..Len(popularStocks)}
Ranges == {<<"7d">>, <<"1m">>, <<"1y">>, <<"5d">>}
\* All attempts of a read fail, or none.
ApiFaults == {f \in FaultSeqs : f[1] = f[MaxAttempts]}
ApiHistFaults == {"none", "query", "iteration"}
Orders == {<<1, 2>>, <<2, 1>>}
Victims(c) == IF DOMAIN c = {} THEN {<<>>} ELSE OldestKeys(c)

\* What the fetcher has stored when the requests arrive.
ApiStores ==
    {<<>>, <<Stock("AAPL", 15000, NumDays * DayLen)>>,
     <<Stock("MSFT", 30000, DayLen), Stock("AAPL", 15000, NumDays * DayLen)>>}

InitApi ==
    /\ stocks \in ApiStores
    /\ watchlist = {}
    /\ now = StartTime
    /\ ret = NoRet
    /\ synth = NoSynth
    /\ ServerInit

\* The server with any salt in the seeded account's hash.
InitAuth ==
    /\ stocks = <<>>
    /\ watchlist = {}
    /\ now = StartTime
    /\ ret = NoRet
    /\ synth = NoSynth
    /\ users \in {SeededUsers(sl) : sl \in Salts}
    /\ ServerIdle

\* The handlers' cache has been looked up fewer than MaxLookups times.
MoreLookups == metrics.Hits + metrics.Misses < MaxLookups

ReqLogin(username, password, fault) ==
    \E r \in {Login(users, username, password, fault)} :
        /\ ~resp.panic
        /\ resp' = [NoResp EXCEPT !.op = "Login", !.user = username, !.pass = password,
                                  !.qfault = fault, !.status = r.status, !.body = r.body,
                                  !.queried = r.queried, !.at = now]
        /\ UNCHANGED <<storeVars, fetcher, guardVars, now, users, cache, metrics>>

ReqLatestPrice(symbol, faults, victim) ==
    \E r \in {LatestPriceHandler(cache, metrics, stocks, symbol, faults, now, victim)} :
        /\ ~resp.panic
        /\ MoreLookups
        /\ cache' = r.cache
        /\ metrics' = r.metrics
        /\ resp' = [NoResp EXCEPT !.op = "GetLatestPrice", !.key = symbol,
                                  !.qfault = faults[1], !.status = r.status,
                                  !.body = r.body, !.queried = r.queried,
                                  !.found = r.found, !.at = now]
        /\ UNCHANGED <<storeVars, fetcher, guardVars, now, users>>

ReqHistoricalPrices(symbol, rangeParam, hf, seed, victim) ==
    \E r \in {HistoricalPricesHandler(cache, metrics, stocks, symbol, rangeParam, hf,
                                       seed, now, victim)} :
        /\ ~resp.panic
        /\ MoreLookups
        /\ cache' = r.cache
        /\ metrics' = r.metrics
        /\ resp' = [NoResp EXCEPT !.op = "GetHistoricalPrices",
                                  !.key = CacheKey(symbol, rangeParam),
                                  !.qfault = (hf # "none"), !.status = r.status,
                                  !.body = r.body, !.queried = r.queried,
                                  !.found = r.found, !.at = now]
        /\ UNCHANGED <<storeVars, fetcher, guardVars, now, users>>

ReqPopularStocks(order, faultsOf, victim) ==
    \E r \in {PopularStocksHandler(cache, metrics, stocks, order, faultsOf, now, victim)} :
        /\ ~resp.panic
        /\ MoreLookups
        /\ cache' = r.cache
        /\ metrics' = r.metrics
        /\ resp' = [NoResp EXCEPT !.op = "GetPopularStocks", !.status = r.status,
                                  !.body = r.body, !.panic = r.panic, !.hit = r.hit,
                                  !.asked = r.asked, !.failed = r.failed, !.at = now]
        /\ UNCHANGED <<storeVars, fetcher, guardVars, now, users>>

\* Time passes.
Tick ==
    /\ now < MaxNow
    /\ now' = now + 1
    /\ resp' = [NoResp EXCEPT !.op = "Tick", !.panic = resp.panic]
    /\ UNCHANGED <<storeVars, fetcher, guardVars, users, cache, metrics>>

\* One round of the cache's cleanup goroutine.
Cleanup ==
    /\ ~resp.panic
    /\ cache' = CacheCleanup(cache, now)
    /\ resp' = [NoResp EXCEPT !.op = "cleanup"]
    /\ UNCHANGED <<storeVars, fetcher, guardVars, now, users, metrics>>

NextAuth ==
    \/ \E u \in Usernames, pw \in Passwords, fault \in BOOLEAN : ReqLogin(u, pw, fault)
    \/ Tick

SpecAuth == InitAuth /\ [][NextAuth]_vars

NextApi ==
    \/ \E sym \in ApiSymbols, faults \in ApiFaults, v \in Victims(cache) :
          ReqLatestPrice(sym, faults, v)
    \/ \E sym \in ApiSymbols, rg \in Ranges, hf \in ApiHistFaults, v \in Victims(cache) :
          ReqHistoricalPrices(sym, rg, hf, 0, v)
    \/ \E order \in Orders, faultsOf \in [1..Len(popularStocks) -> ApiFaults],
          v \in Victims(cache) : ReqPopularStocks(order, faultsOf, v)
    \/ Tick
    \/ Cleanup

SpecApi == InitApi /\ [][NextApi]_vars

\* The price and chart handlers asked for a symbol that contains an underscore
\* (GET /stocks/AAPL_7d) as well as for the listed ones.
NextKeys ==
    \/ \E sym \in ApiSymbols \cup {<<"AAPL", "7d">>}, faults \in ApiFaults,
          v \in Victims(cache) : ReqLatestPrice(sym, faults, v)
    \/ \E sym \in ApiSymbols, rg \in Ranges, hf \in ApiHistFaults, v \in Victims(cache) :
          ReqHistoricalPrices(sym, rg, hf, 0, v)
    \/ Tick
    \/ Cleanup

SpecKeys == InitApi /\ [][NextKeys]_vars

\* ================================================================ claims
StoreOps == {"StoreStock", "StoreStockWithTimestamp"}

\* The step is a call of StoreStock or StoreStockWithTimestamp.
StoreStep == ret'.op \in StoreOps /\ now' # now

\* The real points of the last GetHistoricalPrices call's range.
RealInRange ==
    {r \in RowsOf(stocks, ret.sym) : ret.start <= r.Timestamp /\ r.Timestamp <= ret.end}

\* C1: a GetLatestPrice call that succeeds returns the price of the symbol's
\* stored quote with the greatest timestamp, whatever the order the quotes were
\* inserted in; it succeeds whenever the symbol has a quote and some attempt
\* runs without a driver fault, and fails when the symbol has no quote.
C1_LatestPriceIsNewest ==
    ret.op = "GetLatestPrice" =>
        LET mine   == RowsOf(stocks, ret.sym)
            newest == {r \in mine : \A q \in mine : q.Timestamp <= r.Timestamp}
        IN  /\ ret.err = "nil" => Cardinality(newest) = 1 /\ \A r \in newest : ret.price = r.Price
            /\ (mine # {} /\ \E i \in 1..MaxAttempts : ~ret.faults[i]) => ret.err = "nil"
            /\ mine = {} => ret.err # "nil"

\* C1 witness: the newest quote was inserted before an older one with another
\* price, and GetLatestPrice returned the newest quote's price.
C1_Witness ==
    /\ ret.op = "GetLatestPrice"
    /\ ret.err = "nil"
    /\ \E i, j \in 1..Len(stocks) :
          /\ i < j
          /\ stocks[i].Symbol = ret.sym /\ stocks[j].Symbol = ret.sym
          /\ stocks[i].Timestamp > stocks[j].Timestamp
          /\ stocks[i].Price # stocks[j].Price
          /\ ret.price = stocks[i].Price

\* C2: when no stored quote of the symbol lies in [start, end], the call fails
\* and returns no point; unless the range query itself failed, the error is
\* sql.ErrNoRows (NotFound).  This also holds when the symbol has quotes outside
\* the range.
C2_NoDataIsNotFound ==
    (ret.op = "GetHistoricalPrices" /\ RealInRange = {}) =>
        /\ ret.err # "nil"
        /\ ret.rows = <<>>
        /\ ~ret.qfault => ret.err = "ErrNoRows"

\* C2 witness: the symbol has quotes, none of them in the range, and the call
\* returned sql.ErrNoRows.
C2_Witness ==
    /\ ret.op = "GetHistoricalPrices"
    /\ RealInRange = {}
    /\ RowsOf(stocks, ret.sym) # {}
    /\ ret.err = "ErrNoRows"

\* C3: a successful call over a range with c real points, 1 <= c < 30, returns
\* exactly 30 points, the c real ones and 30 - c synthetic ones; with c >= 30
\* it returns exactly the c real points.
C3_BackfillToFloor ==
    (ret.op = "GetHistoricalPrices" /\ ret.err = "nil") =>
        LET c == Cardinality(RealInRange)
        IN  /\ ret.nreal = c
            /\ Len(ret.rows) = IF c < MinPoints THEN MinPoints ELSE c

\* C4: the series a successful call returns is ascending by timestamp over the
\* whole result, synthetic points included.
C4_ResultSorted ==
    (ret.op = "GetHistoricalPrices" /\ ret.err = "nil") =>
        \A i \in 1..(Len(ret.rows) - 1) : ret.rows[i].Timestamp <= ret.rows[i + 1].Timestamp

\* C5: for every start < end and every count in 1..29 the synthetic timestamps
\* are strictly increasing and lie in [start, end).
C5_SyntheticTimestamps ==
    (synth.done /\ synth.start < synth.end) =>
        /\ Len(synth.out) = synth.count
        /\ \A i \in 1..Len(synth.out) :
              synth.start <= synth.out[i].Timestamp /\ synth.out[i].Timestamp < synth.end
        /\ \A i \in 1..(Len(synth.out) - 1) :
              synth.out[i].Timestamp < synth.out[i + 1].Timestamp

\* C6: every quote in the store has a price > 0, and so has every point
\* GetHistoricalPrices returns.
C6_PricesPositive ==
    /\ \A r \in Range(stocks) : r.Price > 0
    /\ ret.op = "GetHistoricalPrices" => \A i \in 1..Len(ret.rows) : ret.rows[i].Price > 0

\* C7: a store call whose (symbol, timestamp) is already in the store returns
\* no error and leaves the store unchanged.
C7_DuplicateStoreIsNoOp ==
    [][(StoreStep /\ HasKey(stocks, ret'.sym, ret'.ts)) =>
          (ret'.err = "nil" /\ stocks' = stocks)]_vars

\* C8: a store call makes between 1 and 3 Execs; every Exec before the last one
\* failed; it returns nil exactly when its last Exec succeeded, and then exactly
\* that one quote was appended; it returns an error only after 3 failed Execs,
\* and then the store is unchanged.
C8_StoreRetries ==
    [][StoreStep =>
          LET dup       == HasKey(stocks, ret'.sym, ret'.ts)
              failed(i) == ret'.faults[i] \/ dup
          IN  /\ ret'.attempts \in 1..MaxAttempts
              /\ \A j \in 1..(ret'.attempts - 1) : failed(j)
              /\ ret'.err = "nil" =>
                    /\ ~failed(ret'.attempts)
                    /\ stocks' = Append(stocks, Stock(ret'.sym, ret'.price, ret'.ts))
              /\ ret'.err # "nil" =>
                    /\ ret'.attempts = MaxAttempts
                    /\ failed(MaxAttempts)
                    /\ stocks' = stocks]_vars

\* C8 witness: a store call whose first Exec failed and whose second succeeded.
C8_Witness ==
    /\ ret.op \in StoreOps
    /\ ret.err = "nil"
    /\ ret.attempts = 2
    /\ HasKey(stocks, ret.sym, ret.ts)

\* C9: no step changes or removes a watchlist row, no (user, symbol) ever has
\* two rows, and an AddToWatchlist call whose Exec runs returns no error and
\* leaves exactly one row for its (user, symbol), also when the row was there.
C9_AddIsIdempotent ==
    [][/\ \A w \in watchlist : w \in watchlist'
       /\ \A u \in Users, s \in Symbols : Cardinality(WatchRowsOf(watchlist', u, s)) <= 1
       /\ (ret'.op = "AddToWatchlist" /\ now' # now /\ ~ret'.qfault) =>
             /\ ret'.err = "nil"
             /\ Cardinality(WatchRowsOf(watchlist', ret'.user, ret'.sym)) = 1]_vars

\* C9 witness: a repeated AddToWatchlist returned no error and the row still
\* carries the time of the earlier call.
C9_Witness ==
    /\ ret.op = "AddToWatchlist"
    /\ ret.err = "nil"
    /\ \E w \in WatchRowsOf(watchlist, ret.user, ret.sym) : w.added_at < ret.ts

\* C10: a GetWatchlist call whose query runs succeeds and returns one row per
\* symbol the user has added, also when a watched symbol has no stored quote.
C10_WatchlistRowPerSymbol ==
    (ret.op = "GetWatchlist" /\ ~ret.qfault) =>
        /\ ret.err = "nil"
        /\ Len(ret.rows) = Cardinality({w \in watchlist : w.user_id = ret.user})
        /\ \A w \in watchlist : w.user_id = ret.user =>
              Cardinality({i \in 1..Len(ret.rows) : ret.rows[i].Symbol = w.symbol}) = 1

\* ------------------------------------------------------ the Cache on its own
CacheKeys == {<<"AAPL">>, <<"MSFT">>, <<"AAPL", "7d">>}
Payloads == {[type |-> "gin.H", price |-> p] : p \in {15000, 15100}}

CallSet(key, data, victim) ==
    /\ cache' = CacheSet(cache, key, data, now, victim)
    /\ resp' = [NoResp EXCEPT !.op = "Set", !.key = key, !.body = <<data>>, !.at = now,
                              !.evicted = (DOMAIN cache) \ (DOMAIN cache')]
    /\ UNCHANGED <<storeVars, fetcher, guardVars, now, users, metrics>>

CallGet(key) ==
    \E g \in {CacheGet(cache, metrics, key, now)} :
        /\ MoreLookups
        /\ metrics' = g.metrics
        /\ resp' = [NoResp EXCEPT !.op = "Get", !.key = key, !.found = g.found,
                                  !.body = g.data, !.at = now]
        /\ UNCHANGED <<storeVars, fetcher, guardVars, now, users, cache>>

CallClear ==
    /\ cache' = CacheClear(cache)
    /\ resp' = [NoResp EXCEPT !.op = "Clear", !.at = now]
    /\ UNCHANGED <<storeVars, fetcher, guardVars, now, users, metrics>>

NextCache ==
    \/ \E key \in CacheKeys, data \in Payloads, v \in Victims(cache) : CallSet(key, data, v)
    \/ \E key \in CacheKeys : CallGet(key)
    \/ CallClear
    \/ Cleanup
    \/ Tick

SpecCache == InitAuth /\ [][NextCache]_vars

\* ---------------------------------------------------- concurrent Cache.Get
\* Goroutines calling Cache.Get.  Each holds c.mu.RLock from its lookup to its
\* return; RecordHit and RecordMiss take the metrics' own mutex around the
\* increment, which is a load and a store.
Workers == {1, 2}

IdleGetter == [pc |-> "idle", key |-> <<>>, found |-> FALSE, tmp |-> 0, hits |-> 0, misses |-> 0]

\* A variant of MetricsFree without the mutex.
MetricsFree_NoMutex(g) == TRUE
\* m.mu.Lock() can be taken: no goroutine is between Lock and Unlock.
MetricsFree(g) == \A w \in Workers : g[w].pc \notin {"locked", "loaded", "stored"}

InitGets ==
    /\ stocks = <<>>
    /\ watchlist = {}
    /\ now = StartTime
    /\ ret = NoRet
    /\ synth = NoSynth
    /\ users = SeededUsers(0)
    /\ cache \in {<<>>, CacheSet(<<>>, <<"AAPL">>, [type |-> "gin.H", price |-> 15000],
                                 StartTime, <<>>)}
    /\ metrics = [Hits |-> 0, Misses |-> 0]
    /\ getters = [w \in Workers |-> IdleGetter]
    /\ cb = [failures |-> 0, lastFailure |-> 0]
    /\ rl = <<>>
    /\ inflight = 0
    /\ fetcher = NewFetcher
    /\ resp = NoResp

\* c.mu.RLock(); entry, exists := c.entries[key]; the TTL test.
GetLookup(w, key) ==
    /\ getters[w].pc = "idle"
    /\ getters[w].hits + getters[w].misses < MaxLookups
    /\ getters' = [getters EXCEPT ![w].pc = "record", ![w].key = key,
                                  ![w].found = CacheGet(cache, metrics, key, now).found]
    /\ UNCHANGED <<storeVars, fetcher, now, users, cache, metrics, cb, rl, inflight, resp>>

\* RecordHit / RecordMiss: m.mu.Lock()
RecordLock(w) ==
    /\ getters[w].pc = "record"
    /\ MetricsFree(getters)
    /\ getters' = [getters EXCEPT ![w].pc = "locked"]
    /\ UNCHANGED <<storeVars, fetcher, now, users, cache, metrics, cb, rl, inflight, resp>>

\* m.Hits++ / m.Misses++: the load
RecordLoad(w) ==
    /\ getters[w].pc = "locked"
    /\ getters' = [getters EXCEPT ![w].pc = "loaded",
                                  ![w].tmp = IF getters[w].found THEN metrics.Hits
                                             ELSE metrics.Misses]
    /\ UNCHANGED <<storeVars, fetcher, now, users, cache, metrics, cb, rl, inflight, resp>>

\* m.Hits++ / m.Misses++: the store
RecordStore(w) ==
    /\ getters[w].pc = "loaded"
    /\ metrics' = IF getters[w].found THEN [metrics EXCEPT !.Hits = getters[w].tmp + 1]
                  ELSE [metrics EXCEPT !.Misses = getters[w].tmp + 1]
    /\ getters' = [getters EXCEPT ![w].pc = "stored"]
    /\ UNCHANGED <<storeVars, fetcher, now, users, cache, cb, rl, inflight, resp>>

\* m.mu.Unlock(), c.mu.RUnlock() and the return of Get.
GetReturn(w) ==
    /\ getters[w].pc = "stored"
    /\ getters' = [getters EXCEPT ![w] =
                      [IdleGetter EXCEPT
                          !.hits = getters[w].hits + (IF getters[w].found THEN 1 ELSE 0),
                          !.misses = getters[w].misses + (IF getters[w].found THEN 0 ELSE 1)]]
    /\ resp' = [NoResp EXCEPT !.op = "Get", !.key = getters[w].key,
                              !.found = getters[w].found, !.at = now]
    /\ UNCHANGED <<storeVars, fetcher, now, users, cache, metrics, cb, rl, inflight>>

\* Time passes while the goroutines run.
GetsTick ==
    /\ now < MaxNow
    /\ now' = now + 1
    /\ UNCHANGED <<storeVars, serverVars>>

NextGets ==
    \/ \E w \in Workers, key \in {<<"AAPL">>, <<"MSFT">>} : GetLookup(w, key)
    \/ \E w \in Workers : RecordLock(w)
    \/ \E w \in Workers : RecordLoad(w)
    \/ \E w \in Workers : RecordStore(w)
    \/ \E w \in Workers : GetReturn(w)
    \/ GetsTick

SpecGets == InitGets /\ [][NextGets]_vars

\* ------------------------------------------------------- circuit breaker
\* A variant of ProtectEnter that rejects only above the threshold.
ProtectEnter_Late(c, t) ==
    IF c.failures > Threshold /\ t - c.lastFailure < Timeout
    THEN [admit |-> FALSE, cb |-> c]
    ELSE [admit |-> TRUE,
          cb |-> IF c.failures > Threshold THEN [c EXCEPT !.failures = 0] ELSE c]
\* A variant of ProtectEnter that passes after the timeout without the reset.
ProtectEnter_NoReset(c, t) ==
    [admit |-> ~(c.failures >= Threshold /\ t - c.lastFailure < Timeout), cb |-> c]
\* CircuitBreaker.Protect up to c.Next(): under cb.mu, reject while
\* failures >= threshold and time.Since(lastFailure) < timeout; with
\* failures >= threshold and the timeout over, failures = 0 and pass.
ProtectEnter(c, t) ==
    IF c.failures >= Threshold
    THEN IF t - c.lastFailure < Timeout
         THEN [admit |-> FALSE, cb |-> c]
         ELSE [admit |-> TRUE, cb |-> [c EXCEPT !.failures = 0]]
    ELSE [admit |-> TRUE, cb |-> c]

\* CircuitBreaker.Protect after c.Next(): a status >= 500 is counted.
ProtectLeave(c, status, t) ==
    IF status >= 500
    THEN [failures |-> c.failures + 1, lastFailure |-> t]
    ELSE c

\* Statuses the handlers write.
Statuses == {200, 404, 500}

\* A request arrives at the breaker.  resp.streak is the history the claims
\* speak of: the responses with a status >= 500 since the last response
\* below 500 and since the breaker last closed.
Arrive ==
    \E r \in {ProtectEnter(cb, now)} :
        /\ r.admit => inflight < MaxInflight
        /\ cb' = r.cb
        /\ inflight' = IF r.admit THEN inflight + 1 ELSE inflight
        /\ resp' = [NoResp EXCEPT
                       !.op = "Protect",
                       !.status = IF r.admit THEN 0 ELSE 503,
                       !.body = IF r.admit THEN <<>>
                                ELSE ErrorBody("Service temporarily unavailable"),
                       !.at = now,
                       !.streak = IF r.cb.failures < cb.failures THEN 0 ELSE resp.streak]
        /\ UNCHANGED <<storeVars, fetcher, now, users, cache, metrics, getters, rl>>

\* The handler of an admitted request has written its status; c.Next() returns.
Complete(status) ==
    /\ inflight > 0
    /\ inflight' = inflight - 1
    /\ cb' = ProtectLeave(cb, status, now)
    /\ resp' = [NoResp EXCEPT !.op = "Done", !.status = status, !.at = now,
                              !.streak = IF status >= 500 THEN resp.streak + 1 ELSE 0]
    /\ UNCHANGED <<storeVars, fetcher, now, users, cache, metrics, getters, rl>>

GuardTick ==
    /\ now < StartTime + GuardClock
    /\ now' = now + 1
    /\ resp' = [resp EXCEPT !.op = "Tick"]
    /\ UNCHANGED <<storeVars, fetcher, guardVars, users, cache, metrics>>

NextBreaker ==
    \/ Arrive
    \/ \E status \in Statuses : Complete(status)
    \/ GuardTick

SpecBreaker == InitAuth /\ [][NextBreaker]_vars

\* ---------------------------------------------------------- rate limiter
\* RateLimiter keeps one rate.Limiter per client IP: a token bucket of
\* Capacity tokens, full when created, refilled at Capacity tokens per second.
\* The clock's tick is 1/TokenTicks of the time one token takes to refill,
\* and tokens are counted in units of 1/TokenTicks of a token, so a tick adds
\* one unit and a request costs TokenTicks units.
Ips == {"10.0.0.1", "10.0.0.2"}

FullBucket == Capacity * TokenTicks

\* RateLimiter.getLimiter: the key's limiter, created on first use.
getLimiter(limiters, key, t) ==
    IF key \in DOMAIN limiters THEN limiters
    ELSE limiters @@ (key :> [tokens |-> FullBucket, last |-> t])

\* A variant of Allow that takes no token.
Allow_NoCost(b, t) == [ok |-> TRUE, bucket |-> [b EXCEPT !.last = t]]
\* limiter.Allow(): the tokens refilled since last, capped at the burst; with
\* a whole token there the request takes it, otherwise the limiter is left
\* as it was.
Allow(b, t) ==
    LET refilled == b.tokens + (t - b.last)
        tokens == IF refilled > FullBucket THEN FullBucket ELSE refilled
    IN  IF tokens >= TokenTicks
        THEN [ok |-> TRUE, bucket |-> [tokens |-> tokens - TokenTicks, last |-> t]]
        ELSE [ok |-> FALSE, bucket |-> b]

\* The times at which requests of ip were admitted, oldest first.
AdmittedAt(r, ip) == IF ip \in DOMAIN r.admitted THEN r.admitted[ip] ELSE <<>>

\* RateLimiter.Limit for a request of ip whose handler would answer status:
\* 429 and c.Abort() when Allow() refuses, c.Next() otherwise.
LimitRequest(ip, status) ==
    \E limiters \in {getLimiter(rl, ip, now)} :
    \E r \in {Allow(limiters[ip], now)} :
        /\ rl' = [limiters EXCEPT ![ip] = r.bucket]
        /\ resp' = [NoResp EXCEPT
                       !.op = "Limit",
                       !.key = <<ip>>,
                       !.status = IF r.ok THEN status ELSE 429,
                       !.body = IF r.ok THEN <<>> ELSE ErrorBody("Rate limit exceeded"),
                       !.at = now,
                       !.admitted =
                           IF r.ok
                           THEN [k \in DOMAIN limiters |->
                                    IF k = ip THEN Append(AdmittedAt(resp, ip), now)
                                    ELSE AdmittedAt(resp, k)]
                           ELSE resp.admitted]
        /\ UNCHANGED <<storeVars, fetcher, now, users, cache, metrics, getters, cb, inflight>>

NextLimiter ==
    \/ \E ip \in Ips, status \in Statuses : LimitRequest(ip, status)
    \/ GuardTick

SpecLimiter == InitAuth /\ [][NextLimiter]_vars

\* -------------------------------------------- concurrent RateLimiter.Limit
\* Goroutines inside RateLimiter.Limit; getters holds their position, key the
\* client IP.  getLimiter runs from rl.mu.Lock() to the deferred Unlock().
\* A variant of LimitersFree without the mutex.
LimitersFree_NoMutex(g) == TRUE
\* rl.mu.Lock() can be taken: no goroutine is inside getLimiter.
LimitersFree(g) == \A w \in Workers : g[w].pc \notin {"locked", "create"}

\* ip := c.ClientIP(); the call of getLimiter.
LimitEnter(w, ip) ==
    /\ getters[w].pc = "idle"
    /\ getters' = [getters EXCEPT ![w].pc = "getLimiter", ![w].key = <<ip>>]
    /\ UNCHANGED <<storeVars, fetcher, now, users, cache, metrics, cb, rl, inflight, resp>>

\* getLimiter: rl.mu.Lock()
LimiterLock(w) ==
    /\ getters[w].pc = "getLimiter"
    /\ LimitersFree(getters)
    /\ getters' = [getters EXCEPT ![w].pc = "locked"]
    /\ UNCHANGED <<storeVars, fetcher, now, users, cache, metrics, cb, rl, inflight, resp>>

\* getLimiter: limiter, exists := rl.limiters[key]; an existing limiter is
\* returned, which unlocks.
LimiterLookup(w) ==
    /\ getters[w].pc = "locked"
    /\ getters' = [getters EXCEPT
                      ![w].pc = IF getters[w].key[1] \in DOMAIN rl THEN "allow" ELSE "create"]
    /\ UNCHANGED <<storeVars, fetcher, now, users, cache, metrics, cb, rl, inflight, resp>>

\* getLimiter: rl.limiters[key] = rate.NewLimiter(...), return and unlock.
LimiterCreate(w) ==
    /\ getters[w].pc = "create"
    /\ rl' = [k \in DOMAIN rl \cup {getters[w].key[1]} |->
                 IF k = getters[w].key[1] THEN [tokens |-> FullBucket, last |-> now]
                 ELSE rl[k]]
    /\ getters' = [getters EXCEPT ![w].pc = "allow"]
    /\ UNCHANGED <<storeVars, fetcher, now, users, cache, metrics, cb, inflight, resp>>

\* limiter.Allow() and the answer: 429 and c.Abort(), or c.Next().
LimiterAllow(w, status) ==
    /\ getters[w].pc = "allow"
    /\ \E r \in {Allow(rl[getters[w].key[1]], now)} :
          /\ rl' = [rl EXCEPT ![getters[w].key[1]] = r.bucket]
          /\ resp' = [NoResp EXCEPT !.op = "Limit", !.key = getters[w].key,
                                    !.status = IF r.ok THEN status ELSE 429, !.at = now]
    /\ getters' = [getters EXCEPT ![w] = IdleGetter]
    /\ UNCHANGED <<storeVars, fetcher, now, users, cache, metrics, cb, inflight>>

NextLimiters ==
    \/ \E w \in Workers, ip \in Ips : LimitEnter(w, ip)
    \/ \E w \in Workers : LimiterLock(w)
    \/ \E w \in Workers : LimiterLookup(w)
    \/ \E w \in Workers : LimiterCreate(w)
    \/ \E w \in Workers, status \in Statuses : LimiterAllow(w, status)
    \/ GetsTick

SpecLimiters == InitGets /\ [][NextLimiters]_vars

\* ------------------------------------------------------------- the routes
\* main's router: gin.Default() installs Logger and Recovery, r.Use adds the
\* CORS middleware, and the group of the watchlist routes adds AuthMiddleware.
\* Each route with the middleware chain a request runs through, in order.
Routes ==
    {[method |-> "POST", path |-> "/login", chain |-> <<"Logger", "Recovery", "cors">>],
     [method |-> "GET", path |-> "/stocks/:symbol", chain |-> <<"Logger", "Recovery", "cors">>],
     [method |-> "GET", path |-> "/stocks/:symbol/chart",
      chain |-> <<"Logger", "Recovery", "cors">>],
     [method |-> "GET", path |-> "/stocks", chain |-> <<"Logger", "Recovery", "cors">>],
     [method |-> "POST", path |-> "/watchlist",
      chain |-> <<"Logger", "Recovery", "cors", "AuthMiddleware">>],
     [method |-> "GET", path |-> "/watchlist",
      chain |-> <<"Logger", "Recovery", "cors", "AuthMiddleware">>]}

\* The middleware of chain from position i on: AuthMiddleware aborts with 401
\* when the X-User-ID header is empty, the others call c.Next().
RECURSIVE RunChain(_, _, _)
RunChain(chain, i, header) ==
    IF i > Len(chain) THEN [handled |-> TRUE, status |-> 0]
    ELSE IF chain[i] = "AuthMiddleware" /\ header = ""
    THEN [handled |-> FALSE, status |-> 401]
    ELSE RunChain(chain, i + 1, header)

\* A request of client ip on a route; status is what its handler answers.
ServeRoute(route, ip, header, status) ==
    \E r \in {RunChain(route.chain, 1, header)} :
        /\ resp' = [NoResp EXCEPT
                       !.op = "Serve",
                       !.key = <<route.method, route.path, ip>>,
                       !.user = header,
                       !.status = IF r.handled THEN status ELSE r.status,
                       !.found = r.handled,
                       !.hit = Range(route.chain),
                       !.at = now]
        /\ UNCHANGED <<storeVars, fetcher, guardVars, now, users, cache, metrics>>

NextRoutes ==
    \/ \E route \in Routes, ip \in Ips, header \in {"", "1"}, status \in Statuses :
          ServeRoute(route, ip, header, status)
    \/ GuardTick

SpecRoutes == InitAuth /\ [][NextRoutes]_vars

\* ---------------------------------------------------------------------------
\* The watchlist routes: AuthMiddleware, then the handler.
\* ---------------------------------------------------------------------------

\* Values of the X-User-ID header: absent, three numbers, and a non-number.
Headers == {"", "0", "1", "2", "x"}

\* strconv.Atoi(userIDStr)
Atoi(s) ==
    CASE s = "0" -> [err |-> "nil", n |-> 0]
      [] s = "1" -> [err |-> "nil", n |-> 1]
      [] s = "2" -> [err |-> "nil", n |-> 2]
      [] OTHER -> [err |-> "syntax", n |-> 0]

\* AuthMiddleware: 401 and Abort without the header, else c.Set("userID",
\* userID) with the header's string and c.Next().  keys is the context's
\* entry for "userID" (none, or one value with its dynamic type).
AuthMiddleware(header) ==
    IF header = ""
    THEN [aborted |-> TRUE, status |-> 401, body |-> <<ErrorBody("Unauthorized")>>,
          keys |-> <<>>]
    ELSE [aborted |-> FALSE, status |-> 0, body |-> <<>>,
          keys |-> <<[type |-> "string", val |-> header]>>]

\* c.GetInt("userID"): the value when it is an int, else 0 (i, _ = val.(int)).
GetInt(keys) ==
    IF keys = <<>> THEN 0
    ELSE IF keys[1].type = "int" THEN keys[1].val
    ELSE 0

\* Handler.AddToWatchlist (POST /watchlist) behind AuthMiddleware: 400 on a
\* header that is no number or a body without symbol, 500 on a store error.
AddToWatchlistHandler(wl, header, symbol, t, fault) ==
    LET m == AuthMiddleware(header)
        u == Atoi(header)
        r == AddToWatchlist(wl, u.n, symbol, t, fault)
    IN  IF m.aborted THEN [status |-> m.status, body |-> m.body, watchlist |-> wl, asked |-> <<>>]
        ELSE IF u.err # "nil"
        THEN [status |-> 400, body |-> <<ErrorBody("Invalid user ID")>>, watchlist |-> wl,
              asked |-> <<>>]
        ELSE IF symbol = ""
        THEN [status |-> 400, body |-> <<ErrorBody("Invalid request")>>, watchlist |-> wl,
              asked |-> <<>>]
        ELSE IF r.err # "nil"
        THEN [status |-> 500, body |-> <<ErrorBody("Failed to add to watchlist")>>,
              watchlist |-> wl, asked |-> <<u.n>>]
        ELSE [status |-> 200, body |-> <<[type |-> "gin.H",
                                          message |-> "Symbol added to watchlist"]>>,
              watchlist |-> r.watchlist, asked |-> <<u.n>>]

\* Handler.GetWatchlist (GET /watchlist) behind AuthMiddleware: the store's
\* rows for c.GetInt("userID"), 500 on a store error.  asked is the user the
\* store was queried for.
GetWatchlistHandler(st, wl, header, qfault) ==
    LET m      == AuthMiddleware(header)
        userID == GetInt(m.keys)
        r      == GetWatchlist(st, wl, userID, qfault)
    IN  IF m.aborted THEN [status |-> m.status, body |-> m.body, asked |-> <<>>]
        ELSE IF r.err # "nil"
        THEN [status |-> 500, body |-> <<ErrorBody("Failed to fetch watchlist")>>,
              asked |-> <<userID>>]
        ELSE [status |-> 200, body |-> r.rows, asked |-> <<userID>>]

ReqAddToWatchlist(header, symbol, fault) ==
    \E r \in {AddToWatchlistHandler(watchlist, header, symbol, now, fault)} :
        /\ ~resp.panic
        /\ watchlist' = r.watchlist
        /\ resp' = [NoResp EXCEPT !.op = "AddToWatchlist", !.user = header,
                                  !.pass = symbol, !.key = r.asked, !.qfault = fault,
                                  !.status = r.status, !.body = r.body, !.at = now]
        /\ UNCHANGED <<stocks, ret, synth, fetcher, guardVars, now, users, cache, metrics>>

ReqGetWatchlist(header, qfault) ==
    \E r \in {GetWatchlistHandler(stocks, watchlist, header, qfault)} :
        /\ ~resp.panic
        /\ resp' = [NoResp EXCEPT !.op = "GetWatchlist", !.user = header,
                                  !.key = r.asked, !.qfault = qfault,
                                  !.status = r.status, !.body = r.body, !.at = now]
        /\ UNCHANGED <<storeVars, fetcher, guardVars, now, users, cache, metrics>>

NextWatch ==
    \/ \E header \in Headers, symbol \in Symbols \cup {""}, fault \in BOOLEAN :
          ReqAddToWatchlist(header, symbol, fault)
    \/ \E header \in Headers, qfault \in BOOLEAN : ReqGetWatchlist(header, qfault)

SpecWatch == InitApi /\ [][NextWatch]_vars

\* ------------------------------------------------- the fetcher's lifecycle
\* What the fetcher's goroutines leave alone.
otherVars == <<watchlist, synth, now, users, cache, metrics, getters, cb, rl, inflight, resp>>

\* One provider attempt of a backfill worker: the request or the read of its
\* body fails, the body does not decode, or it decodes to a daily series of
\* (date key, close) pairs.
Series ==
    { <<>>,
      << <<1, <<"1", "5", "0", ".", "0", "0">> >> >>,
      << <<0, <<"1", "5", "0", ".", "0", "0">> >>, <<2, <<"N", "/", "A">> >> >> }
HistAnswers ==
    {[kind |-> "error", points |-> <<>>], [kind |-> "undecodable", points |-> <<>>]}
        \cup {[kind |-> "series", points |-> p] : p \in Series}
HistRespSeqs ==
    {[i \in 1..MaxAttempts |-> IF i <= k THEN [kind |-> "error", points |-> <<>>] ELSE g] :
        k \in {0, MaxAttempts - 1}, g \in HistAnswers}

\* The provider's answers to the attempts of one quote fetch, and the store's
\* faults, as the batches are given them.
QuoteRespSeqs ==
    {[i \in 1..MaxAttempts |-> IF i <= k THEN HttpErr ELSE g] :
        k \in {0, MaxAttempts - 1}, g \in {<<"1", "5", "0", ".", "0", "0">>, <<>>, HttpErr}}
BatchFaults == {[i \in 1..MaxAttempts |-> b] : b \in BOOLEAN}

\* A variant of fetchHistorical that makes every attempt.
RECURSIVE fetchHistorical_AllAttempts(_, _)
fetchHistorical_AllAttempts(i, resps) ==
    IF i + 1 > MaxAttempts
    THEN [ok |-> resps[i].kind = "series", attempts |-> i, points |-> resps[i].points]
    ELSE fetchHistorical_AllAttempts(i + 1, resps)
\* The retry loop of a backfill worker from attempt i on (for i := 0; i < 3;
\* i++): the first attempt whose body decodes ends it; attempts counts the
\* provider requests made.
RECURSIVE fetchHistorical(_, _)
fetchHistorical(i, resps) ==
    IF resps[i].kind = "series"
    THEN [ok |-> TRUE, attempts |-> i, points |-> resps[i].points]
    ELSE IF i + 1 > MaxAttempts THEN [ok |-> FALSE, attempts |-> i, points |-> <<>>]
    ELSE fetchHistorical(i + 1, resps)

\* for date, data := range result.TimeSeriesDaily: a close or a date that does
\* not parse is skipped, the others are stored; a store error is logged.
RECURSIVE StoreSeries(_, _, _, _, _)
StoreSeries(st, sym, points, i, faults) ==
    IF i > Len(points) THEN st
    ELSE LET p == parsePrice(points[i][2])
             t == ParseDate(points[i][1])
         IN  StoreSeries(IF p.err # "nil" \/ t.err # "nil" THEN st
                         ELSE StoreStockWithTimestamp(st, sym, p.price, t.ts, faults).stocks,
                         sym, points, i + 1, faults)

\* The first attempt of a backfill worker, from i on, whose body decodes into
\* a series; 0 when there is none.
RECURSIVE FirstSeries(_, _)
FirstSeries(i, resps) ==
    IF i > Len(resps) THEN 0
    ELSE IF resps[i].kind = "series" THEN i
    ELSE FirstSeries(i + 1, resps)

\* The first attempt of a quote fetch, from i on, that the provider answers
\* with a body that decodes (its price may be empty); 0 when there is none.
RECURSIVE FirstBody(_, _)
FirstBody(i, resps) ==
    IF i > Len(resps) THEN 0
    ELSE IF resps[i] # HttpErr THEN i
    ELSE FirstBody(i + 1, resps)

\* f.recordRequest(success)
recordRequest(m, success) ==
    [TotalRequests |-> m.TotalRequests + 1,
     FailedRequests |-> m.FailedRequests + (IF success THEN 0 ELSE 1),
     SuccessfulFetches |-> m.SuccessfulFetches + (IF success THEN 1 ELSE 0)]

\* A variant of RunFree without the mutex.
RunFree_NoMutex(f) == TRUE
\* f.mu.Lock() can be taken: no call is between Lock and Unlock.
RunFree(f) == \A c \in Callers : f.th[c].pc \notin {"load", "set"}

\* A goroutine calls Start or Stop.  A caller whose earlier Start left backfill
\* workers behind calls again once they are gone.
CallStart(c) ==
    /\ ~fetcher.panic
    /\ fetcher.th[c].pc = "idle"
    /\ fetcher.starts < MaxStarts
    /\ fetcher.bf[c].run = {}
    /\ fetcher' = [fetcher EXCEPT !.th[c] = [IdleThread EXCEPT !.op = "Start", !.pc = "lock"],
                                  !.starts = @ + 1]
    /\ UNCHANGED <<stocks, ret, otherVars>>

CallStop(c) ==
    /\ ~fetcher.panic
    /\ fetcher.th[c].pc = "idle"
    /\ fetcher' = [fetcher EXCEPT !.th[c] = [IdleThread EXCEPT !.op = "Stop", !.pc = "lock"]]
    /\ UNCHANGED <<stocks, ret, otherVars>>

\* Start and Stop: f.mu.Lock()
RunLock(c) ==
    /\ ~fetcher.panic
    /\ fetcher.th[c].pc = "lock"
    /\ RunFree(fetcher)
    /\ fetcher' = [fetcher EXCEPT !.th[c].pc = "load"]
    /\ UNCHANGED <<stocks, ret, otherVars>>

\* Start and Stop: the read of f.isRunning in the if.
RunLoad(c) ==
    /\ ~fetcher.panic
    /\ fetcher.th[c].pc = "load"
    /\ fetcher' = [fetcher EXCEPT !.th[c].pc = "set", !.th[c].seen = fetcher.isRunning]
    /\ UNCHANGED <<stocks, ret, otherVars>>

\* Start: unlock and return the error, or f.isRunning = true and unlock.
StartSet(c) ==
    /\ ~fetcher.panic
    /\ fetcher.th[c].op = "Start"
    /\ fetcher.th[c].pc = "set"
    /\ fetcher' = IF fetcher.th[c].seen
                  THEN [fetcher EXCEPT !.th[c] = IdleThread]
                  ELSE [fetcher EXCEPT !.isRunning = TRUE, !.th[c].pc = "backfill",
                                       !.bf[c] = NoBackfill]
    /\ ret' = [NoRet EXCEPT !.op = "Start", !.user = c,
                            !.err = IF fetcher.th[c].seen THEN "fetcher already running"
                                    ELSE "nil"]
    /\ UNCHANGED <<stocks, otherVars>>

\* Stop: unlock and return the error, or f.isRunning = false and unlock.
StopSet(c) ==
    /\ ~fetcher.panic
    /\ fetcher.th[c].op = "Stop"
    /\ fetcher.th[c].pc = "set"
    /\ fetcher' = IF ~fetcher.th[c].seen
                  THEN [fetcher EXCEPT !.th[c] = IdleThread]
                  ELSE [fetcher EXCEPT !.isRunning = FALSE, !.th[c].pc = "close"]
    /\ ret' = [NoRet EXCEPT !.op = "Stop", !.user = c,
                            !.err = IF fetcher.th[c].seen THEN "nil"
                                    ELSE "fetcher not running"]
    /\ UNCHANGED <<stocks, otherVars>>

\* Stop: close(f.done), which panics on a channel already closed.
StopClose(c) ==
    /\ ~fetcher.panic
    /\ fetcher.th[c].pc = "close"
    /\ fetcher' = [fetcher EXCEPT !.panic = fetcher.done = "closed", !.done = "closed",
                                  !.th[c] = IdleThread]
    /\ UNCHANGED <<stocks, ret, otherVars>>

\* A variant of SemFree with a semaphore that never fills.
SemFree_Unbounded(b) == TRUE
\* sem <- struct{}{} can proceed: fewer than MaxConcurrent workers hold a slot.
SemFree(b) == Cardinality(b.run) < MaxConcurrent

\* fetchHistoricalData's loop, the case sem <- struct{}{}: wg.Add(1) and the
\* worker of the next symbol starts.
BackfillSpawn(c) ==
    /\ ~fetcher.panic
    /\ fetcher.th[c].pc = "backfill"
    /\ fetcher.bf[c].next <= Len(BackfillSymbols)
    /\ SemFree(fetcher.bf[c])
    /\ fetcher' = [fetcher EXCEPT
                      !.bf[c].run = @ \cup {BackfillSymbols[fetcher.bf[c].next]},
                      !.bf[c].next = @ + 1]
    /\ UNCHANGED <<stocks, ret, otherVars>>

\* The five minutes of context.WithTimeout are over.
BackfillTimeout(c) ==
    /\ ~fetcher.panic
    /\ fetcher.th[c].pc = "backfill"
    /\ fetcher.bf[c].ctx = "live"
    /\ fetcher' = [fetcher EXCEPT !.bf[c].ctx = "done"]
    /\ UNCHANGED <<stocks, ret, otherVars>>

\* fetchHistoricalData's loop, the case <-ctx.Done(): return.
BackfillAbort(c) ==
    /\ ~fetcher.panic
    /\ fetcher.th[c].pc = "backfill"
    /\ fetcher.bf[c].next <= Len(BackfillSymbols)
    /\ fetcher.bf[c].ctx = "done"
    /\ fetcher' = [fetcher EXCEPT !.th[c].pc = "poll"]
    /\ UNCHANGED <<stocks, ret, otherVars>>

\* wg.Wait() returns after the loop, and the deferred cancel() runs.
BackfillJoin(c) ==
    /\ ~fetcher.panic
    /\ fetcher.th[c].pc = "backfill"
    /\ fetcher.bf[c].next > Len(BackfillSymbols)
    /\ fetcher.bf[c].run = {}
    /\ fetcher' = [fetcher EXCEPT !.th[c].pc = "poll", !.bf[c].ctx = "done"]
    /\ UNCHANGED <<stocks, ret, otherVars>>

\* A backfill worker, from its start to wg.Done and <-sem.  f.limiter.Wait(ctx)
\* gives a slot, or an error once the context is done, which is recorded and
\* ends the worker.  With the slot the retry loop runs: on the first decoded
\* body the series is stored and success recorded; after three failures
\* failure is recorded.
Worker(c, sym, resps, faults) ==
    /\ ~fetcher.panic
    /\ sym \in fetcher.bf[c].run
    /\ IF fetcher.bf[c].ctx = "done"
       THEN /\ fetcher' = [fetcher EXCEPT !.bf[c].run = @ \ {sym},
                                          !.metrics = recordRequest(@, FALSE)]
            /\ ret' = [NoRet EXCEPT !.op = "backfillWorker", !.sym = sym,
                                    !.err = "RateLimit", !.attempts = 0, !.slots = 0,
                                    !.first = FirstSeries(1, resps)]
            /\ UNCHANGED stocks
       ELSE \E r \in {fetchHistorical(1, resps)} :
            /\ stocks' = IF r.ok THEN StoreSeries(stocks, sym, r.points, 1, faults)
                         ELSE stocks
            /\ fetcher' = [fetcher EXCEPT !.bf[c].run = @ \ {sym},
                                          !.metrics = recordRequest(@, r.ok)]
            /\ ret' = [NoRet EXCEPT !.op = "backfillWorker", !.sym = sym,
                                    !.err = IF r.ok THEN "nil" ELSE "FetchFailed",
                                    !.attempts = r.attempts, !.slots = 1,
                                    !.first = FirstSeries(1, resps)]
    /\ UNCHANGED otherVars

\* fetchPrices starts: one goroutine per symbol.
PollBegin(c) ==
    /\ ~fetcher.panic
    /\ fetcher.th[c].pc = "poll"
    /\ fetcher' = [fetcher EXCEPT !.th[c].pc = "polling", !.th[c].pending = LiveSymbols]
    /\ UNCHANGED <<stocks, ret, otherVars>>

\* One goroutine of fetchPrices: fetchStockPrice(s), whose limiter.Wait has the
\* background context, then StoreStock(s, price); errors are logged.
PollWorker(t, sym, resps, faults) ==
    /\ ~fetcher.panic
    /\ fetcher.th[t].pc = "polling"
    /\ sym \in fetcher.th[t].pending
    /\ \E f \in {fetchStockPrice(1, resps)} :
          /\ stocks' = IF f.err = "nil" THEN StoreStock(stocks, sym, f.price, now, faults).stocks
                       ELSE stocks
          /\ fetcher' = [fetcher EXCEPT !.th[t].pending = @ \ {sym}]
          /\ ret' = [NoRet EXCEPT !.op = "quoteWorker", !.sym = sym, !.err = f.err,
                                  !.price = f.price, !.attempts = f.attempts,
                                  !.slots = 1, !.first = FirstBody(1, resps)]
    /\ UNCHANGED otherVars

\* wg.Wait() of fetchPrices returns: Start goes on to launch the loop, the
\* loop goes back to its select.
PollEnd(t) ==
    /\ ~fetcher.panic
    /\ fetcher.th[t].pc = "polling"
    /\ fetcher.th[t].pending = {}
    /\ fetcher' = [fetcher EXCEPT !.th[t].pc = IF t \in Callers THEN "launch" ELSE "select"]
    /\ UNCHANGED <<stocks, ret, otherVars>>

\* Start: go func() { for { select ... } }() and return nil.  fresh tells
\* whether the tick waiting in ticker.C fired after the latest launch.
Launch(c, l) ==
    /\ ~fetcher.panic
    /\ fetcher.th[c].pc = "launch"
    /\ fetcher.th[l].op = "none"
    /\ \A k \in Loops : k < l => fetcher.th[k].op # "none"
    /\ fetcher' = [fetcher EXCEPT
                      !.th[c] = IdleThread,
                      !.th[l] = [IdleThread EXCEPT !.op = "loop", !.pc = "select"],
                      !.fresh = FALSE]
    /\ UNCHANGED <<stocks, ret, otherVars>>

\* The ticker fires; ticker.C holds one tick, a tick that finds it full is
\* dropped.
TickerFire ==
    /\ ~fetcher.panic
    /\ ~fetcher.stopped
    /\ fetcher.tick = 0
    /\ fetcher' = [fetcher EXCEPT !.tick = 1, !.fresh = TRUE]
    /\ UNCHANGED <<stocks, ret, otherVars>>

\* The loop's select, case <-f.ticker.C: fetchPrices().  after counts the
\* polls this loop began with done closed (up to two); stale tells that a poll was begun
\* on a tick from before the loop's launch.
LoopPoll(l) ==
    /\ ~fetcher.panic
    /\ fetcher.th[l].op = "loop"
    /\ fetcher.th[l].pc = "select"
    /\ fetcher.tick = 1
    /\ fetcher' = [fetcher EXCEPT
                      !.tick = 0,
                      !.th[l].pc = "polling",
                      !.th[l].pending = LiveSymbols,
                      !.th[l].after = IF fetcher.done = "closed" /\ @ < 2 THEN @ + 1 ELSE @,
                      !.th[l].stale = @ \/ ~fetcher.fresh]
    /\ UNCHANGED <<stocks, ret, otherVars>>

\* The loop's select, case <-f.done: f.ticker.Stop() and return.
LoopExit(l) ==
    /\ ~fetcher.panic
    /\ fetcher.th[l].op = "loop"
    /\ fetcher.th[l].pc = "select"
    /\ fetcher.done = "closed"
    /\ fetcher' = [fetcher EXCEPT !.stopped = TRUE, !.th[l].pc = "exited"]
    /\ UNCHANGED <<stocks, ret, otherVars>>

\* The provider is down and the store healthy.
ProviderDown == [i \in 1..MaxAttempts |-> [kind |-> "error", points |-> <<>>]]
QuotesDown == [i \in 1..MaxAttempts |-> HttpErr]
NoFaults == [i \in 1..MaxAttempts |-> FALSE]

InitFetcher ==
    /\ stocks = <<>>
    /\ watchlist = {}
    /\ now = StartTime
    /\ ret = NoRet
    /\ synth = NoSynth
    /\ ServerInit

\* Start's whole call of fetchHistoricalData with the provider down and the
\* context in time: every worker gets its slot, fails three attempts and
\* records the failure; nothing is stored and wg.Wait() returns.
BackfillAll(c) ==
    /\ ~fetcher.panic
    /\ fetcher.th[c].pc = "backfill"
    /\ fetcher' = [fetcher EXCEPT
                      !.th[c].pc = "poll",
                      !.bf[c] = [next |-> Len(BackfillSymbols) + 1, ctx |-> "done", run |-> {}],
                      !.metrics = [@ EXCEPT
                                      !.TotalRequests = @ + Len(BackfillSymbols),
                                      !.FailedRequests = @ + Len(BackfillSymbols)]]
    /\ UNCHANGED <<stocks, ret, otherVars>>

\* The rest of a fetchPrices call with the provider down: every goroutine
\* fails its three attempts, nothing is stored and wg.Wait() returns.
PollAll(t) ==
    /\ ~fetcher.panic
    /\ fetcher.th[t].pc = "polling"
    /\ fetcher' = [fetcher EXCEPT !.th[t].pc = IF t \in Callers THEN "launch" ELSE "select",
                                  !.th[t].pending = {}]
    /\ UNCHANGED <<stocks, ret, otherVars>>

\* Start and Stop called from two goroutines, the calls of fetchHistoricalData
\* and fetchPrices taken as wholes.
NextLifecycle ==
    \/ \E c \in Callers : CallStart(c)
    \/ \E c \in Callers : CallStop(c)
    \/ \E c \in Callers : RunLock(c)
    \/ \E c \in Callers : RunLoad(c)
    \/ \E c \in Callers : StartSet(c)
    \/ \E c \in Callers : StopSet(c)
    \/ \E c \in Callers : StopClose(c)
    \/ \E c \in Callers : BackfillAll(c)
    \/ \E c \in Callers : PollBegin(c)
    \/ \E t \in Callers \cup Loops : PollAll(t)
    \/ \E c \in Callers, l \in Loops : Launch(c, l)
    \/ TickerFire
    \/ \E l \in Loops : LoopPoll(l)
    \/ \E l \in Loops : LoopExit(l)

SpecLifecycle == InitFetcher /\ [][NextLifecycle]_vars

\* One goroutine calls Start: the backfill and the polls step by step, with
\* every answer of the provider and every fault of the store.
NextBatch ==
    \/ CallStart(1)
    \/ RunLock(1)
    \/ RunLoad(1)
    \/ StartSet(1)
    \/ BackfillSpawn(1)
    \/ BackfillTimeout(1)
    \/ BackfillAbort(1)
    \/ BackfillJoin(1)
    \/ \E sym \in Range(BackfillSymbols), resps \in HistRespSeqs, faults \in BatchFaults :
          Worker(1, sym, resps, faults)
    \/ PollBegin(1)
    \/ \E t \in {1} \cup Loops, sym \in LiveSymbols, resps \in QuoteRespSeqs,
          faults \in BatchFaults :
          PollWorker(t, sym, resps, faults)
    \/ \E t \in {1} \cup Loops : PollEnd(t)
    \/ \E l \in Loops : Launch(1, l)
    \/ TickerFire
    \/ \E l \in Loops : LoopPoll(l)

SpecBatch == InitFetcher /\ [][NextBatch]_vars

\* ---------------------------------------------------------------------------
\* Symbol validation and the health check.
\* ---------------------------------------------------------------------------

\* len(symbol) > 10 in isValidStockSymbol.
MaxSymbolLen ==
    10

\* Characters a symbol is made of here, by unicode class; the accented letter
\* takes two bytes in UTF-8, the others one.
Letters == {"A", "B", "K", "L", "P", "R", "é"}
ByteWidth(c) == IF c = "é" THEN 2 ELSE 1

\* len(symbol): the length of a Go string in bytes.
RECURSIVE ByteLen(_)
ByteLen(symbol) ==
    IF symbol = <<>> THEN 0 ELSE ByteWidth(Head(symbol)) + ByteLen(Tail(symbol))

isValidStockSymbol(symbol) ==
    /\ ~(ByteLen(symbol) < 1 \/ ByteLen(symbol) > MaxSymbolLen)
    /\ \A i \in 1..Len(symbol) :
          ~(symbol[i] \notin Letters /\ symbol[i] \notin Digits /\ symbol[i] # ".")

\* The symbol of the health check, a class-B ticker, and malformed symbols:
\* empty, a character outside the classes, eleven letters, ten letters, and
\* six two-byte letters.
AAPL == <<"A", "A", "P", "L">>
SymbolInputs ==
    {AAPL, <<"B", "R", "K", ".", "B">>, <<>>, <<"A", "$">>,
     [i \in 1..MaxSymbolLen + 1 |-> "A"], [i \in 1..MaxSymbolLen |-> "A"],
     [i \in 1..6 |-> "é"]}

\* What the claim calls malformed: empty, more than ten characters, or a
\* character that is no letter, digit or period.
Malformed(symbol) ==
    \/ symbol = <<>>
    \/ Len(symbol) > MaxSymbolLen
    \/ \E i \in 1..Len(symbol) : symbol[i] \notin Letters \cup Digits \cup {"."}

\* fetchStockPriceWithContext(ctx, symbol): the symbol check, f.limiter.Wait(ctx),
\* which fails when ctx runs out first (slotOk false), then the retry loop.
\* slots counts the limiter slots taken, attempts the provider requests.
fetchStockPriceWithContext(symbol, slotOk, resps) ==
    IF ~isValidStockSymbol(symbol)
    THEN [err |-> "InvalidSymbol", price |-> 0, attempts |-> 0, slots |-> 0]
    ELSE IF ~slotOk
    THEN [err |-> "RateLimit", price |-> 0, attempts |-> 0, slots |-> 0]
    ELSE LET f == fetchStockPrice(1, resps)
         IN  [err |-> f.err, price |-> f.price, attempts |-> f.attempts, slots |-> 1]

\* fetchStockPrice(symbol) as a whole: f.limiter.Wait(context.Background()),
\* which does not fail, then the retry loop on the URL built from the symbol.
fetchStockPriceOf(symbol, resps) ==
    LET f == fetchStockPrice(1, resps)
    IN  [err |-> f.err, price |-> f.price, attempts |-> f.attempts, slots |-> 1]

\* The body of a backfill worker for a symbol: f.limiter.Wait(ctx), then the
\* retry loop on the URL built from the symbol.
backfillWorkerOf(symbol, slotOk, resps) ==
    IF ~slotOk
    THEN [err |-> "RateLimit", price |-> 0, attempts |-> 0, slots |-> 0]
    ELSE LET r == fetchHistorical(1, resps)
         IN  [err |-> IF r.ok THEN "nil" ELSE "FetchFailed", price |-> 0,
              attempts |-> r.attempts, slots |-> 1]

\* What one provider request answered with r comes to: a single pass of the
\* retry loop, the last one.
OneRequest(r) == fetchStockPrice(MaxAttempts, [i \in 1..MaxAttempts |-> r])

\* One of the fetcher's three fetch paths is run on a symbol.
FetchSymbol(path, symbol, slotOk, resps) ==
    /\ ~fetcher.panic
    /\ \E f \in {IF path = "fetchStockPriceWithContext"
                 THEN fetchStockPriceWithContext(symbol, slotOk, resps)
                 ELSE fetchStockPriceOf(symbol, resps)} :
          ret' = [NoRet EXCEPT !.op = "Fetch", !.path = path, !.sym = symbol,
                               !.err = f.err, !.price = f.price,
                               !.attempts = f.attempts, !.slots = f.slots]
    /\ UNCHANGED <<stocks, fetcher, otherVars>>

BackfillSymbol(symbol, slotOk, resps) ==
    /\ ~fetcher.panic
    /\ \E f \in {backfillWorkerOf(symbol, slotOk, resps)} :
          ret' = [NoRet EXCEPT !.op = "Fetch", !.path = "fetchHistoricalData",
                               !.sym = symbol, !.err = f.err,
                               !.attempts = f.attempts, !.slots = f.slots]
    /\ UNCHANGED <<stocks, fetcher, otherVars>>

\* HealthCheck(): IsRunning() under the read lock, then
\* fetchStockPriceWithContext(ctx, "AAPL") with a context of five seconds.
\* qfault tells whether the fetcher was running, cause what the first
\* provider request alone came to, first the first attempt answered with a body.
HealthCheck(slotOk, resps) ==
    /\ ~fetcher.panic
    /\ RunFree(fetcher)
    /\ ret' = IF ~fetcher.isRunning
              THEN [NoRet EXCEPT !.op = "HealthCheck", !.err = "fetcher not running"]
              ELSE LET f == fetchStockPriceWithContext(AAPL, slotOk, resps)
                   IN  [NoRet EXCEPT !.op = "HealthCheck", !.sym = AAPL, !.qfault = TRUE,
                                     !.err = f.err, !.price = f.price,
                                     !.attempts = f.attempts, !.slots = f.slots,
                                     !.cause = OneRequest(resps[1]).err,
                                     !.first = FirstBody(1, resps)]
    /\ UNCHANGED <<stocks, fetcher, otherVars>>

NextHealth ==
    \/ CallStart(1)
    \/ CallStop(1)
    \/ RunLock(1)
    \/ RunLoad(1)
    \/ StartSet(1)
    \/ StopSet(1)
    \/ StopClose(1)
    \/ BackfillAll(1)
    \/ PollBegin(1)
    \/ PollAll(1)
    \/ \E l \in Loops : Launch(1, l)
    \/ \E l \in Loops : LoopExit(l)
    \/ \E slotOk \in BOOLEAN, resps \in QuoteRespSeqs : HealthCheck(slotOk, resps)
    \/ \E path \in {"fetchStockPriceWithContext", "fetchStockPrice"}, symbol \in SymbolInputs,
          slotOk \in BOOLEAN, resps \in QuoteRespSeqs :
              FetchSymbol(path, symbol, slotOk, resps)
    \/ \E symbol \in SymbolInputs, slotOk \in BOOLEAN, resps \in HistRespSeqs :
          BackfillSymbol(symbol, slotOk, resps)

SpecHealth == InitFetcher /\ [][NextHealth]_vars

\* The step is a request to a read handler: every one looks the cache up once
\* or more, and nothing else does.
ReadStep == metrics' # metrics

\* C11: Login answers 200 with the user's id only when the username is a row
\* of users and the password's digest under the row's salt is the stored one,
\* and always then unless the query fails; an unknown username and a wrong
\* password are both answered 401 with the same body.
C11_LoginChecksCredentials ==
    resp.op = "Login" =>
        LET match == {u \in users : /\ u.Username = resp.user
                                    /\ u.Password.digest = Digest(u.Password.salt, resp.pass)}
        IN  /\ resp.status = 200 =>
                  \E u \in match : resp.body = <<[type |-> "gin.H", userID |-> u.ID]>>
            /\ (match # {} /\ ~resp.qfault) => resp.status = 200
            /\ (resp.user # "" /\ resp.pass # "" /\ match = {}) =>
                  /\ resp.status = 401
                  /\ resp.body = <<ErrorBody("Invalid credentials")>>

\* C11 witness: the seeded username with a wrong password was answered 401.
C11_Witness ==
    /\ resp.op = "Login"
    /\ resp.user = "Shandris"
    /\ resp.pass = "guess"
    /\ ~resp.qfault
    /\ resp.status = 401

\* C15: a read handler always answers; on a cache hit it answers 200 with the
\* cached payload and does not query the store; on a miss with a valid request
\* it queries the store, and when it then answers 200 the cache holds the
\* answer's payload under the request's key (for the popular batch: a symbol
\* that hit is not asked of the store, and a symbol asked with success is in
\* the answer).
C15_CacheAside ==
    [][ReadStep =>
          /\ resp'.op \in {"GetLatestPrice", "GetHistoricalPrices"} =>
                /\ resp'.found =>
                      /\ resp'.status = 200
                      /\ ~resp'.queried
                      /\ resp'.key \in DOMAIN cache
                      /\ resp'.body = <<cache[resp'.key].Data>>
                /\ (~resp'.found /\ resp'.status # 400) => resp'.queried
                /\ (~resp'.found /\ resp'.status = 200) =>
                      /\ resp'.key \in DOMAIN cache'
                      /\ resp'.body = <<cache'[resp'.key].Data>>
          /\ resp'.op = "GetPopularStocks" =>
                /\ ~resp'.panic
                /\ resp'.status = 200
                /\ resp'.hit \cap resp'.asked = {}
                /\ \A sym \in resp'.asked \ resp'.failed :
                      \E i \in 1..Len(resp'.body[1].items) :
                          resp'.body[1].items[i].Symbol = sym]_vars

\* C16: a request whose store lookup fails leaves the cache as it was (for
\* the popular batch: leaves the failed symbol's entry as it was), and the key
\* is not a hit afterwards.
C16_NoNegativeCaching ==
    [][ReadStep =>
          /\ (resp'.op \in {"GetLatestPrice", "GetHistoricalPrices"}
                 /\ resp'.queried /\ resp'.status # 200) =>
                /\ cache' = cache
                /\ resp'.key \in DOMAIN cache' => Expired(cache'[resp'.key], now')
          /\ (resp'.op = "GetPopularStocks" /\ ~resp'.panic) =>
                \A sym \in resp'.failed :
                    sym \in DOMAIN cache' =>
                        /\ sym \in DOMAIN cache /\ cache'[sym] = cache[sym]
                        /\ Expired(cache'[sym], now')]_vars

\* C16 witness: a latest-price request missed a non-empty cache, the store
\* lookup failed with 404, and the key is not in the cache.
C16_Witness ==
    /\ resp.op = "GetLatestPrice"
    /\ resp.queried
    /\ resp.status = 404
    /\ DOMAIN cache # {}
    /\ resp.key \notin DOMAIN cache
    /\ metrics.Misses >= 2

\* The step is a Cache.Set, a Cache.Clear.
SetStep == resp'.op = "Set"
ClearStep == resp'.op = "Clear"

\* C12: Set(k, v) leaves v under k with the current time; no step other than
\* a Set or a Clear changes or removes an entry whose TTL has not elapsed; a
\* Get(k) while k's entry is younger than the TTL returns (its data, found),
\* and a Get(k) when the entry is older than the TTL, swept or not, or when
\* there is no entry, returns not-found.
C12_GetWithinTTL ==
    [][/\ SetStep =>
             /\ resp'.key \in DOMAIN cache'
             /\ cache'[resp'.key] = [Data |-> resp'.body[1], Timestamp |-> now]
       /\ (~SetStep /\ ~ClearStep) =>
             \A k \in DOMAIN cache :
                 now' - cache[k].Timestamp < CacheTTL =>
                     k \in DOMAIN cache' /\ cache'[k] = cache[k]
       /\ (ReadStep /\ resp'.op = "Get") =>
             LET k == resp'.key
             IN  /\ (k \in DOMAIN cache /\ now - cache[k].Timestamp < CacheTTL) =>
                       resp'.found /\ resp'.body = <<cache[k].Data>>
                 /\ (k \in DOMAIN cache /\ now - cache[k].Timestamp > CacheTTL) =>
                       ~resp'.found
                 /\ k \notin DOMAIN cache => ~resp'.found]_vars

\* C12 witness: a Get found nothing under a key whose entry is still in the
\* cache, older than the TTL.
C12_Witness ==
    /\ resp.op = "Get"
    /\ ~resp.found
    /\ resp.at = now
    /\ resp.key \in DOMAIN cache
    /\ now - cache[resp.key].Timestamp > CacheTTL

\* C13: a Set of a new key into a cache of maxSize entries removes exactly one
\* entry, none of the other entries is older than the removed one, and the
\* other entries stay as they were.
C13_EvictsOldest ==
    [][(SetStep /\ Cardinality(DOMAIN cache) = CacheMaxSize
          /\ resp'.key \notin DOMAIN cache) =>
          \E e \in DOMAIN cache :
              /\ DOMAIN cache' = ((DOMAIN cache) \ {e}) \cup {resp'.key}
              /\ \A j \in (DOMAIN cache) \ {e} :
                    /\ cache[e].Timestamp <= cache[j].Timestamp
                    /\ cache'[j] = cache[j]]_vars

\* C13 witness: a Set evicted an entry and an entry older than the new one
\* survived.
C13_Witness ==
    /\ resp.op = "Set"
    /\ resp.at = now
    /\ resp.evicted # {}
    /\ resp.key \notin resp.evicted
    /\ \E k \in DOMAIN cache : cache[k].Timestamp < now

RECURSIVE SumOver(_, _)
SumOver(f, S) ==
    IF S = {} THEN 0
    ELSE LET w == CHOOSE x \in S : TRUE IN f[w] + SumOver(f, S \ {w})

\* C14: at every moment Hits is the number of Get calls that found their key
\* and have made their increment, and Misses the number that did not find it
\* and have made theirs: each Get increments exactly one counter, the hit
\* counter iff it returns found, so when no Get is in progress Hits + Misses
\* is the number of completed calls.
C14_CountersMatchGets ==
    LET counted(w, f) == IF getters[w].pc = "stored" /\ getters[w].found = f THEN 1 ELSE 0
    IN  /\ metrics.Hits =
              SumOver([w \in Workers |-> getters[w].hits + counted(w, TRUE)], Workers)
        /\ metrics.Misses =
              SumOver([w \in Workers |-> getters[w].misses + counted(w, FALSE)], Workers)

\* C14 witness: a Get has completed, another holds the metrics mutex after its
\* increment, and a third call waits for the mutex.
C14_Witness ==
    \E v, w \in Workers :
        /\ getters[v].pc = "stored"
        /\ getters[w].pc = "record"
        /\ getters[v].hits + getters[v].misses + getters[w].hits + getters[w].misses >= 1
        /\ metrics.Hits >= 1 /\ metrics.Misses >= 1

ArriveStep == resp'.op = "Protect"

\* C17: a request that arrives after Threshold consecutive responses with a
\* status >= 500 is rejected with 503 and its handler does not run while less
\* than Timeout has passed since the last failure; once Timeout has passed
\* since the last failure the request is let through.
C17_OpensAfterThreshold ==
    [][ArriveStep /\ resp.streak >= Threshold =>
          IF now - cb.lastFailure < Timeout
          THEN resp'.status = 503 /\ inflight' = inflight
          ELSE resp'.status # 503 /\ inflight' = inflight + 1]_vars

\* C17 witness: Threshold responses in a row were faults and the request
\* that arrived next has been rejected.
C17_Witness ==
    /\ resp.op = "Protect"
    /\ resp.status = 503
    /\ resp.streak >= Threshold
    /\ inflight = 0

\* C18: a request arriving while failures >= Threshold and less than Timeout
\* has passed since lastFailure is rejected, its handler does not run and the
\* breaker's state stays as it is; a request arriving with failures >=
\* Threshold once Timeout has passed sets failures to 0 and is passed on.
C18_OpenRejectsThenResets ==
    [][ArriveStep /\ cb.failures >= Threshold =>
          IF now - cb.lastFailure < Timeout
          THEN resp'.status = 503 /\ inflight' = inflight /\ cb' = cb
          ELSE cb'.failures = 0 /\ resp'.status # 503 /\ inflight' = inflight + 1]_vars

\* C18 witness: the breaker was open, the timeout passed, and the request
\* that arrived then has reset the count and runs its handler.
C18_Witness ==
    /\ resp.op = "Protect"
    /\ resp.status = 0
    /\ cb.failures = 0
    /\ cb.lastFailure >= StartTime
    /\ now - cb.lastFailure >= Timeout
    /\ inflight = 1

\* C19: the breaker is open (failures >= Threshold) only when the last
\* Threshold responses were all faults, with no response below 500 between
\* them.
C19_OpensOnlyOnConsecutiveFaults ==
    cb.failures >= Threshold => resp.streak >= Threshold

\* Requests of ip admitted less than one token's refill time before t.
AdmittedWithin(r, ip, t) ==
    Cardinality({i \in DOMAIN AdmittedAt(r, ip) : t - AdmittedAt(r, ip)[i] < TokenTicks})

\* C20: of the requests of one key that arrive within one refill interval
\* (less than the time one token takes to refill) no more than Capacity are
\* admitted; a request arriving when Capacity of them have been admitted in
\* the interval is answered 429 and no handler runs for it.
C20_AtMostCapacityPerInterval ==
    [][resp'.op = "Limit" =>
          /\ AdmittedWithin(resp', resp'.key[1], now) <= Capacity
          /\ AdmittedWithin(resp, resp'.key[1], now) >= Capacity =>
                /\ resp'.status = 429
                /\ resp'.admitted = resp.admitted]_vars

\* C20 witness: Capacity requests of one key were admitted within the
\* interval, not all at the same instant, and one more has been rejected.
C20_Witness ==
    /\ resp.op = "Limit"
    /\ resp.status = 429
    /\ AdmittedWithin(resp, resp.key[1], now) = Capacity
    /\ \E i, j \in DOMAIN AdmittedAt(resp, resp.key[1]) :
          /\ AdmittedAt(resp, resp.key[1])[i] < now
          /\ AdmittedAt(resp, resp.key[1])[j] = now
          /\ now - AdmittedAt(resp, resp.key[1])[i] < TokenTicks

\* C21: a key's bucket is never removed; a bucket appears full; and a bucket
\* that exists changes only by Allow() of a request with that key, so it is
\* never replaced by a second creation and never touched by another key's
\* requests, however the requests' goroutines interleave.
C21_BucketsPerKey ==
    [][/\ \A k \in DOMAIN rl : k \in DOMAIN rl'
       /\ \A k \in DOMAIN rl' \ DOMAIN rl : rl'[k].tokens = FullBucket
       /\ \A k \in DOMAIN rl :
             rl'[k] # rl[k] =>
                /\ resp'.op = "Limit"
                /\ resp'.key = <<k>>
                /\ rl'[k] = Allow(rl[k], now).bucket]_vars

\* C21 witness: two requests of one new key are inside Limit at once, one
\* creating the bucket while the other waits for the mutex, and another
\* key's bucket has been used.
C21_Witness ==
    \E v, w \in Workers :
        /\ getters[v].pc = "create"
        /\ getters[w].pc = "getLimiter"
        /\ getters[v].key = getters[w].key
        /\ getters[v].key[1] \notin DOMAIN rl
        /\ \E k \in DOMAIN rl : rl[k].tokens < FullBucket

\* C22: a request whose handler has run went through the rate limiter and
\* the circuit breaker first.
C22_GuardsBeforeHandlers ==
    resp.op = "Serve" /\ resp.found =>
        {"RateLimiter.Limit", "CircuitBreaker.Protect"} \subseteq resp.hit

\* C23: a Start returns an error exactly when the fetcher is already running
\* and a Stop exactly when it is not, and a call that errs leaves the running
\* flag, the done channel, the ticker, the backfills, the counters and the
\* store as they were; a Start that succeeds finds the flag false and sets it,
\* a Stop that succeeds finds it true and clears it, so of several calls made
\* at once at most one succeeds.
C23_StartStopGuarded ==
    [][\A c \in Callers :
        fetcher.th[c].pc = "set" /\ fetcher'.th[c].pc # "set" =>
            LET running == fetcher.isRunning
                isErr   == IF fetcher.th[c].op = "Start" THEN running ELSE ~running
            IN  /\ ret'.user = c
                /\ ret'.op = fetcher.th[c].op
                /\ isErr <=> ret'.err # "nil"
                /\ isErr => /\ ret'.err = IF ret'.op = "Start"
                                          THEN "fetcher already running"
                                          ELSE "fetcher not running"
                            /\ fetcher' = [fetcher EXCEPT !.th[c] = IdleThread]
                            /\ stocks' = stocks
                /\ ~isErr => fetcher'.isRunning = ~running]_vars

\* Two Starts were made at once: caller 2 was turned away while caller 1, which
\* won, has not begun its backfill yet.
C23_Witness ==
    /\ ret.op = "Start"
    /\ ret.user = 2
    /\ ret.err = "fetcher already running"
    /\ fetcher.th[1].op = "Start"
    /\ fetcher.th[1].pc = "backfill"

\* C25: once Stop has closed the done channel, a polling loop begins at most
\* one further quote poll before it stops the ticker and returns.
C25_OnePollAfterStop ==
    \A l \in Loops : fetcher.th[l].after <= 1

\* C24: within a Start that succeeded, every backfill worker has ended before
\* the first quote poll begins, every fetch of that poll has ended before the
\* loop is launched, and the loop polls only on ticks that fired after its
\* launch.
C24_StartupOrder ==
    /\ \A c \in Callers :
          /\ fetcher.th[c].pc \in {"poll", "polling", "launch"} => fetcher.bf[c].run = {}
          /\ fetcher.th[c].pc = "launch" => fetcher.th[c].pending = {}
    /\ \A l \in Loops : ~fetcher.th[l].stale

\* C26: at every moment at most MaxConcurrent backfill workers hold a slot of
\* the semaphore, and a worker that has ended, whether its limiter wait
\* failed, its attempts ran out or it stored its series, holds none.
C26_BoundedBackfill ==
    \A c \in Callers :
        /\ Cardinality(fetcher.bf[c].run) <= MaxConcurrent
        /\ ret.op = "backfillWorker" => /\ ret.sym \notin fetcher.bf[c].run
                                        /\ ret.err \in {"RateLimit", "FetchFailed", "nil"}

\* A worker ended on a failed limiter wait, and the slot it gave back let the
\* last symbol's worker start: the pool is full again.
C26_Witness ==
    /\ ret.op = "backfillWorker"
    /\ ret.err = "RateLimit"
    /\ fetcher.bf[1].next > Len(BackfillSymbols)
    /\ Cardinality(fetcher.bf[1].run) = MaxConcurrent
    /\ BackfillSymbols[Len(BackfillSymbols)] \in fetcher.bf[1].run

\* C27: a batch is never cut short: when fetchHistoricalData has returned,
\* every symbol of its list was given a worker and every worker has ended,
\* whichever of them failed at the limiter, the provider or the store; and
\* when a quote poll has returned, every live symbol was fetched.
C27_BatchesComplete ==
    /\ \A c \in Callers :
          fetcher.th[c].pc \notin {"lock", "load", "set", "backfill"}
              /\ fetcher.bf[c] # NoBackfill =>
                  /\ fetcher.bf[c].next = Len(BackfillSymbols) + 1
                  /\ fetcher.bf[c].run = {}
    /\ \A t \in Callers \cup Loops :
          fetcher.th[t].pc \in {"launch", "select", "exited"} => fetcher.th[t].pending = {}

\* C28: a backfill worker or a quote fetch that got no limiter slot makes no
\* provider request; one that got its slot, a single one, makes at most MaxAttempts requests
\* and its last request is the first one answered with a body that decodes,
\* or the last allowed one when no answer decodes.
C28_AttemptsUntilDecoded ==
    ret.op \in {"backfillWorker", "quoteWorker"} =>
        /\ ret.attempts <= MaxAttempts
        /\ ret.slots = IF ret.err = "RateLimit" THEN 0 ELSE 1
        /\ ret.err = "RateLimit" => ret.attempts = 0
        /\ ret.err # "RateLimit" =>
              ret.attempts = IF ret.first = 0 THEN MaxAttempts ELSE ret.first

C30_SingleProviderCall ==
    ret.op = "HealthCheck" /\ ret.qfault /\ ret.slots = 1 =>
        /\ ret.attempts = 1
        /\ ret.err = ret.cause

\* C31: a GET /stocks/{symbol} for a symbol of which the store holds no quote
\* is answered 404, whatever requests came before it.
C31_NotFoundWhenNeverFetched ==
    resp.op = "GetLatestPrice" /\ RowsOf(stocks, StoreSymbol(resp.key)) = {} =>
        resp.status = 404

\* C32: a price or chart read that fails because the store failed is answered
\* with a status other than the 404 of a symbol or range without data.
C32_StoreFailureNot404 ==
    resp.op \in {"GetLatestPrice", "GetHistoricalPrices"}
        /\ resp.queried /\ resp.qfault /\ resp.status # 200 =>
            resp.status # 404

\* C33: GET /stocks is answered 200 with one item for each symbol of the fixed
\* list whose lookup succeeded, in the cache or in the store, in the order of
\* the list, and none for the symbols whose lookup failed.
C33_PopularPartialFailure ==
    resp.op = "GetPopularStocks" =>
        /\ ~resp.panic
        /\ resp.status = 200
        /\ LET items == resp.body[1].items
               ok    == SelectSeq(popularStocks,
                                  LAMBDA s : s \in (resp.hit \cup resp.asked) \ resp.failed)
           IN  [i \in 1..Len(items) |-> items[i].Symbol] = ok

\* C34: no two rows of the store have the same symbol and timestamp, and a
\* row once stored stays, with its price, through every later store call.
C34_QuotesUniqueAndImmutable ==
    /\ [](\A i, j \in 1..Len(stocks) :
            stocks[i].Symbol = stocks[j].Symbol /\ stocks[i].Timestamp = stocks[j].Timestamp
                => i = j)
    /\ [][Range(stocks) \subseteq Range(stocks')]_vars

\* A backfill point arrived for a day the store already holds for the symbol,
\* with another price: the store refused it and kept the row it had.
C34_Witness ==
    /\ ret.op = "StoreStockWithTimestamp"
    /\ ret.cause = "Constraint"
    /\ \E r \in Range(stocks) :
          r.Symbol = ret.sym /\ r.Timestamp = ret.ts /\ r.Price # ret.price

\* C35: once a POST /watchlist with X-User-ID u has stored a symbol, a GET
\* /watchlist with the same X-User-ID that meets no store fault queries the
\* store for user u and its answer has a row for each symbol stored for u.
C35_WatchlistReadYourWrite ==
    resp.op = "GetWatchlist" /\ ~resp.qfault /\ Atoi(resp.user).err = "nil"
        /\ (\E w \in watchlist : w.user_id = Atoi(resp.user).n) =>
            /\ resp.key = <<Atoi(resp.user).n>>
            /\ resp.status = 200
            /\ \A w \in watchlist :
                  w.user_id = Atoi(resp.user).n =>
                      \E i \in 1..Len(resp.body) : resp.body[i].Symbol = w.symbol

\* C36: no Stop crashes, and while the fetcher is running, from a Start that
\* succeeded to the next Stop, its loop has not been told to end: the done
\* channel is open and the ticker has not been stopped.
C36_RestartKeepsPolling ==
    /\ ~fetcher.panic
    /\ fetcher.isRunning => fetcher.done = "open" /\ ~fetcher.stopped

\* C37: while the breaker is open (failures >= Threshold and less than
\* Timeout since lastFailure) no step changes failures or lastFailure.
C37_OpenStateFrozen ==
    [][cb.failures >= Threshold /\ now - cb.lastFailure < Timeout =>
          cb'.failures = cb.failures /\ cb'.lastFailure = cb.lastFailure]_vars

====
